---- MODULE Spec2Model ----
(***************************************************************************)
(* GDeflate tile stream (microsoft/DirectStorage, GDeflate/GDeflate):      *)
(* Compress / Decompress, their tile workers on the shared atomic index,   *)
(* the TileStream header and the tile index, with the integer widths of    *)
(* the C++ code.                                                           *)
(*                                                                         *)
(* Unsigned integers of the program are little-endian byte sequences of    *)
(* their width (size_t: 8 bytes, uint32_t: 4, uint16_t: 2), as they lie in *)
(* memory; arithmetic on them wraps at the width as it does in C++.        *)
(***************************************************************************)
EXTENDS Integers, Sequences, FiniteSets, Bags, TLC

\* ------------------------------------------------------------------------
\* Program constants
\* ------------------------------------------------------------------------
kDefaultTileSize == 65536
kGDeflateId == 4
kMaxTiles == 65535
kMaxWorkers == 31
kMinTilesPerWorker == 64
COMPRESS_SINGLE_THREAD == 512
MinimumCompressionLevel == 1
MaximumCompressionLevel == 12
SizeofTileStream == 8
SizeofU32 == 4
SizeofU64 == 8

\* ------------------------------------------------------------------------
\* Unsigned arithmetic at a fixed width (little-endian byte sequences)
\* ------------------------------------------------------------------------
Byte == 256

\* F(v), F(v, w) and F(u, v, w), each argument evaluated once however often
\* F uses it
Bind(v, F(_)) == CHOOSE r \in {F(x) : x \in {v}} : TRUE
Bind2(v, w, F(_, _)) == CHOOSE r \in {F(x, y) : x \in {v}, y \in {w}} : TRUE
Bind3(u, v, w, F(_, _, _)) == CHOOSE r \in {F(x, y, z) : x \in {u}, y \in {v}, z \in {w}} : TRUE

RECURSIVE ToBytes(_, _)
\* the w-byte unsigned value of the natural n (n taken modulo 2^(8w))
ToBytes(n, w) ==
    IF w = 0 THEN <<>> ELSE Bind(n, LAMBDA v : <<v % Byte>> \o ToBytes(v \div Byte, w - 1))

SizeT(n) == ToBytes(n, SizeofU64)
U32(n) == ToBytes(n, SizeofU32)

\* a test for zero that never finds it
NeverZero(a) == FALSE

IsZero(a) == Bind(a, LAMBDA v : \A i \in 1..Len(v) : v[i] = 0)

\* static_cast to a narrower unsigned type: the low w bytes
Trunc(a, w) == SubSeq(a, 1, w)

\* conversion to a wider unsigned type: zero extension
Ext(a, w) == Bind(a, LAMBDA v : v \o [i \in 1..(w - Len(v)) |-> 0])

RECURSIVE ToNat(_)
\* the natural a byte sequence denotes (used where the value is below 2^31)
ToNat(a) == Bind(a, LAMBDA v : IF v = <<>> THEN 0 ELSE v[1] + Byte * ToNat(Tail(v)))

RECURSIVE AddC(_, _, _, _)
AddC(a, b, i, c) ==
    IF i > Len(a) THEN <<>>
    ELSE Bind(a[i] + b[i] + c, LAMBDA s : <<s % Byte>> \o AddC(a, b, i + 1, s \div Byte))

\* a + b of two unsigned values of the same width, wrapping at the width
Add(a, b) == Bind2(a, b, LAMBDA x, y : AddC(x, y, 1, 0))

RECURSIVE SubB(_, _, _, _)
SubB(a, b, i, c) ==
    IF i > Len(a) THEN <<>>
    ELSE Bind(a[i] - b[i] - c, LAMBDA d :
             IF d < 0 THEN <<d + Byte>> \o SubB(a, b, i + 1, 1)
             ELSE <<d>> \o SubB(a, b, i + 1, 0))

\* a - b of two unsigned values of the same width, wrapping at the width
Sub(a, b) == Bind2(a, b, LAMBDA x, y : SubB(x, y, 1, 0))

RECURSIVE MulC(_, _, _, _)
MulC(a, k, i, c) ==
    IF i > Len(a) THEN <<>>
    ELSE Bind(a[i] * k + c, LAMBDA p : <<p % Byte>> \o MulC(a, k, i + 1, p \div Byte))

\* a * k for a natural k < 2^22, wrapping at the width of a
Mul(a, k) == Bind2(a, k, LAMBDA x, y : MulC(x, y, 1, 0))

RECURSIVE DivRem(_, _, _)
DivRem(a, k, i) ==
    IF i > Len(a) THEN [q |-> <<>>, r |-> 0]
    ELSE Bind(DivRem(a, k, i + 1), LAMBDA hi :
             LET cur == hi.r * Byte + a[i]
             IN  [q |-> <<cur \div k>> \o hi.q, r |-> cur % k])

\* a / k (unsigned division) for a natural 0 < k < 2^22
Div(a, k) == Bind(a, LAMBDA v : DivRem(v, k, 1).q)

RECURSIVE LessFrom(_, _, _)
LessFrom(a, b, i) ==
    IF i = 0 THEN FALSE
    ELSE IF a[i] # b[i] THEN a[i] < b[i]
    ELSE LessFrom(a, b, i - 1)

\* a < b of two unsigned values of the same width
Less(a, b) == Bind2(a, b, LAMBDA x, y : LessFrom(x, y, Len(x)))
Leq(a, b) == ~Less(b, a)
Min(a, b) == Bind2(a, b, LAMBDA x, y : IF Less(y, x) THEN y ELSE x)
Max(a, b) == Bind2(a, b, LAMBDA x, y : IF Less(x, y) THEN y ELSE x)


\* ------------------------------------------------------------------------
\* TileStream: the 8-byte stream header (TileStream.h)
\* ------------------------------------------------------------------------
\* x ^ 0xff for a uint8_t x
Xor255(b) == 255 - b

\* the 18-bit bit-field lastTileSize keeps the low 18 bits of what is assigned
Low18(a) == Bind(a, LAMBDA v : v[1] + Byte * v[2] + Byte * Byte * (v[3] % 4))

\* memset(this, 0, sizeof(*this))
ZeroTileStream ==
    [id |-> 0, magic |-> 0, numTiles |-> 0,
     tileSizeIdx |-> 0, lastTileSize |-> 0, reserved1 |-> 0]

\* SetCodecId with the magic byte left equal to the id
SetCodecIdPlain(h, inId) == [h EXCEPT !.id = inId, !.magic = inId]

SetCodecId(h, inId) == [h EXCEPT !.id = inId, !.magic = Xor255(inId)]

\* SetUncompressedSize that does not count the partial last tile
SetUncompressedSizeWhole(h, size) ==
    LET numTiles0 == ToNat(Trunc(Div(size, kDefaultTileSize), 2))
        product   == Mul(U32(numTiles0), kDefaultTileSize)
        last      == Low18(Trunc(Sub(size, Ext(product, SizeofU64)), SizeofU32))
    IN  [h EXCEPT !.numTiles = numTiles0, !.lastTileSize = last]

SetUncompressedSize(h, size) ==
    Bind(size, LAMBDA sz :
    Bind(ToNat(Trunc(Div(sz, kDefaultTileSize), 2)), LAMBDA numTiles0 :
        LET product == Mul(U32(numTiles0), kDefaultTileSize)
        IN  Bind(Low18(Trunc(Sub(sz, Ext(product, SizeofU64)), SizeofU32)), LAMBDA last :
                [h EXCEPT !.numTiles = (numTiles0 + (IF last # 0 THEN 1 ELSE 0)) % 65536,
                          !.lastTileSize = last])))

\* TileStream::TileStream(size_t uncompressedSize)
TileStream(uncompressedSize) ==
    SetUncompressedSize(
        SetCodecId([ZeroTileStream EXCEPT !.tileSizeIdx = 1], kGDeflateId),
        uncompressedSize)

IsValid(h) == h.id = Xor255(h.magic)

\* size_t GetUncompressedSize() const: computed in 32 bits, returned as size_t
GetUncompressedSize(h) ==
    Bind(h, LAMBDA s :
        LET whole == Mul(U32(s.numTiles), kDefaultTileSize)
            cut   == IF s.lastTileSize = 0 THEN U32(0)
                     ELSE Sub(U32(kDefaultTileSize), U32(s.lastTileSize))
        IN  Ext(Sub(whole, cut), SizeofU64))

\* the struct with lastTileSize laid out from bit 8 of the word
HeaderBytesByteAligned(h) ==
    <<h.id, h.magic>> \o ToBytes(h.numTiles, 2)
    \o Add(U32(h.tileSizeIdx + 256 * h.lastTileSize), Mul(U32(h.reserved1), 1048576))

\* the struct as it lies in memory: id, magic, numTiles (LE), then the 32-bit
\* word holding tileSizeIdx (bits 0..1), lastTileSize (2..19), reserved1 (20..31)
HeaderBytes(h) ==
    Bind(h, LAMBDA s :
        <<s.id, s.magic>> \o ToBytes(s.numTiles, 2)
        \o Add(U32(s.tileSizeIdx + 4 * s.lastTileSize), Mul(U32(s.reserved1), 1048576)))

\* reinterpret_cast<const TileStream*>(in): the fields read back from 8 bytes
HeaderAt(b) ==
    Bind(b, LAMBDA v :
        [id |-> v[1], magic |-> v[2], numTiles |-> v[3] + Byte * v[4],
         tileSizeIdx |-> v[5] % 4,
         lastTileSize |-> (v[5] \div 4) + 64 * v[6] + 16384 * (v[7] % 16),
         reserved1 |-> (v[7] \div 16) + 16 * v[8]])

\* ------------------------------------------------------------------------
\* The single-tile primitive (libdeflate's gdeflate page codec, external)
\* ------------------------------------------------------------------------
\* Tile contents are patterns: a slice is the first len bytes of a pattern.
Symbols == {"zero", "rand"}

\* worst-case expansion of one page and the scratch size it gives
kPagePad == 4 * 208 + 4 * 8
kPageBound == kDefaultTileSize + kPagePad

\* number of bytes the primitive produces for a slice at a level
PageBytes(sym, len, level) ==
    IF sym = "rand"
        THEN len + (IF level = MinimumCompressionLevel THEN kPagePad ELSE 8)
        ELSE 24 + level

NoPage == [sym |-> "none", len |-> 0, level |-> 0, nbytes |-> SizeT(0)]
CorruptPage == [sym |-> "corrupt", len |-> 0, level |-> 0, nbytes |-> SizeT(0)]

\* libdeflate_gdeflate_compress(compressor, in, in_nbytes, &page, 1)
GDeflateCompressPage(slice, level) ==
    Bind(slice, LAMBDA s :
        [sym |-> s.sym, len |-> s.len, level |-> level,
         nbytes |-> SizeT(PageBytes(s.sym, s.len, level))])

\* libdeflate_gdeflate_decompress(decompressor, &page, 1, out, avail, nullptr):
\* the bytes it stores at out (a page that is not a whole compressed page, or
\* one that does not fit avail, decodes to nothing useful)
GDeflateDecompressPage(page, avail) ==
    Bind(page, LAMBDA p :
        IF p.sym \in Symbols /\ p.len <= avail
            THEN [sym |-> p.sym, len |-> p.len]
            ELSE [sym |-> "garbage", len |-> 0])

\* ------------------------------------------------------------------------
\* Buffers: memory as the set of extents written so far
\* ------------------------------------------------------------------------
\* An extent is what one memcpy stored: raw bytes, or one compressed page.
BytesBlock(b) == Bind(b, LAMBDA v : [bytes |-> v, page |-> NoPage, size |-> SizeT(Len(v))])
PageBlock(p) == Bind(p, LAMBDA v : [bytes |-> <<>>, page |-> v, size |-> v.nbytes])

Overlaps(e, pos, size) ==
    Less(e.pos, Add(pos, size)) /\ Less(pos, Add(e.pos, e.len))

\* memcpy(ptr + pos, d, dataSize)
Store(buf, pos, block) ==
    Bind2(pos, block, LAMBDA at, d :
        IF IsZero(d.size) THEN buf
        ELSE {e \in buf : ~Overlaps(e, at, d.size)}
             \cup {[pos |-> at, len |-> d.size, bytes |-> d.bytes, page |-> d.page]})

\* the byte at address a; -1 where no byte value was stored
ByteAt(buf, a) ==
    Bind(SizeT(a), LAMBDA at :
    Bind({e \in buf : e.bytes # <<>> /\ Leq(e.pos, at) /\ Less(at, Add(e.pos, e.len))},
         LAMBDA hit :
            IF hit = {} THEN -1
            ELSE Bind(CHOOSE e \in hit : TRUE, LAMBDA e : e.bytes[ToNat(Sub(at, e.pos)) + 1])))

ReadBytes(buf, a, n) == Bind2(buf, a, LAMBDA b, at : [k \in 1..n |-> ByteAt(b, at + k - 1)])

\* the compressed page lying at [addr, addr + nbytes)
ReadPage(buf, addr, nbytes) ==
    Bind2(addr, nbytes, LAMBDA at, n :
    Bind({e \in buf : e.pos = at /\ e.len = n /\ e.page # NoPage}, LAMBDA hit :
        IF hit = {} THEN CorruptPage ELSE (CHOOSE e \in hit : TRUE).page))

\* ------------------------------------------------------------------------
\* The input: size bytes whose tile-sized chunks follow a pattern
\* ------------------------------------------------------------------------
Patterns == {"zero", "rand", "zero-rand", "rand-zero"}

ChunkSym(pattern, chunk) ==
    CASE pattern = "zero" -> "zero"
      [] pattern = "rand" -> "rand"
      [] pattern = "zero-rand" -> IF chunk % 2 = 0 THEN "zero" ELSE "rand"
      [] pattern = "rand-zero" -> IF chunk % 2 = 0 THEN "rand" ELSE "zero"

\* the n bytes at in + pos
InputSlice(in, pos, n) ==
    Bind3(pos, n, Div(pos, kDefaultTileSize), LAMBDA at, len, chunk :
        IF /\ at = Mul(chunk, kDefaultTileSize)
           /\ Leq(len, SizeT(kDefaultTileSize))
           /\ Leq(Add(at, len), in.size)
        THEN [sym |-> ChunkSym(in.pattern, ToNat(Trunc(chunk, 2))), len |-> ToNat(len)]
        ELSE [sym |-> "garbage", len |-> 0])

\* ------------------------------------------------------------------------
\* GDeflateCompress.cpp
\* ------------------------------------------------------------------------
\* struct OutputStreamWrapper
OutputStreamWrapper(ptr, size) == [ptr |-> ptr, size |-> size, pos |-> SizeT(0)]

\* StreamOut without the test of the size
StreamOutUnchecked(os, block) ==
    [os EXCEPT !.ptr = Store(os.ptr, os.pos, block), !.pos = Add(os.pos, block.size)]

StreamOut(os, block) ==
    Bind2(os, block, LAMBDA o, d :
        IF Less(o.size, Add(o.pos, d.size)) THEN o
        ELSE [o EXCEPT !.ptr = Store(o.ptr, o.pos, d), !.pos = Add(o.pos, d.size)])

SetPos(os, n) ==
    Bind2(os, n, LAMBDA o, at : IF Less(o.size, at) THEN o ELSE [o EXCEPT !.pos = at])

\* CompressBound without the per-page padding
CompressBoundNoPad(size) ==
    LET numTiles == Max(SizeT(1),
                        Min(SizeT(kMaxTiles),
                            Div(Add(size, SizeT(kDefaultTileSize - 1)), kDefaultTileSize)))
        tileSize == kDefaultTileSize + SizeofU32
    IN  Add(Add(Mul(numTiles, tileSize), SizeT(SizeofTileStream)), SizeT(SizeofU64))

\* size_t CompressBound(size_t size)
CompressBound(size) ==
    LET numTiles == Max(SizeT(1),
                        Min(SizeT(kMaxTiles),
                            Div(Add(size, SizeT(kDefaultTileSize - 1)), kDefaultTileSize)))
        tileSize == kDefaultTileSize + (SizeofU32 + 4 * 208 + 4 * 8)
    IN  Add(Add(Mul(numTiles, tileSize), SizeT(SizeofTileStream)), SizeT(SizeofU64))

\* CompressionContext::Tile{}
EmptyTile == [data |-> NoPage, uncompressedSize |-> SizeT(0)]

\* the round taking a whole tile whatever remains of the input
CompressedTileWhole(in, level, tileIndex) ==
    LET tilePos == Ext(Mul(tileIndex, kDefaultTileSize), SizeofU64)
    IN  [data |-> GDeflateCompressPage(InputSlice(in, tilePos, SizeT(kDefaultTileSize)), level),
         uncompressedSize |-> SizeT(kDefaultTileSize)]

\* the body of the loop of TileCompressionJob for one claimed tileIndex (a uint32_t)
CompressedTile(in, level, tileIndex) ==
    Bind(Ext(Mul(tileIndex, kDefaultTileSize), SizeofU64), LAMBDA tilePos :
        LET remaining == Sub(in.size, tilePos)
        IN  Bind(Min(remaining, SizeT(kDefaultTileSize)), LAMBDA uncompressedSize :
                [data |-> GDeflateCompressPage(InputSlice(in, tilePos, uncompressedSize), level),
                 uncompressedSize |-> uncompressedSize]))

\* libdeflate_alloc_gdeflate_compressor(level) returns a compressor
CompressorAllocated(level) ==
    level \in MinimumCompressionLevel..MaximumCompressionLevel

\* what the round can do: with no compressor the codec is called on a null
\* pointer, which is undefined: it faults, or it returns and the page is the
\* scratch buffer as it was, scratchSize bytes of nothing
CompressOutcomes(in, level, tileIndex) ==
    Bind(CompressedTile(in, level, tileIndex), LAMBDA tile :
        IF CompressorAllocated(level) THEN {tile}
        ELSE {[tile EXCEPT !.data = [CorruptPage EXCEPT !.nbytes = SizeT(kPageBound)]],
              [tile EXCEPT !.data = [CorruptPage EXCEPT !.sym = "fault"]]})

\* tile.data.size()
TileDataSize(tile) == tile.data.nbytes

\* tilePtrs.push_back(static_cast<uint32_t>(dataPos))
TilePtrOf(dataPos) == Trunc(dataPos, SizeofU32)

\* dataPos += tile.data.size()
NextDataPos(dataPos, tile) == Add(dataPos, TileDataSize(tile))

RECURSIVE PushTilePtrs(_, _, _)
PushTilePtrs(tiles, i, dataPos) ==
    IF i > Len(tiles) THEN <<>>
    ELSE Bind(dataPos, LAMBDA pos :
             <<TilePtrOf(pos)>> \o PushTilePtrs(tiles, i + 1, NextDataPos(pos, tiles[i])))

\* tilePtrs[0] = static_cast<uint32_t>(context.tiles.back().data.size())
LastTileEntry(tile) == Trunc(TileDataSize(tile), SizeofU32)

\* the tile index DoCompress builds from the tile vector
TilePtrs(tiles) ==
    [PushTilePtrs(tiles, 1, SizeT(0)) EXCEPT ![1] = LastTileEntry(tiles[Len(tiles)])]

\* "calculate uncompressed size"
UncompressedSizeOf(numPtrs, inputSize) ==
    LET whole == Mul(SizeT(numPtrs), kDefaultTileSize)
    IN  Bind(Sub(inputSize, Mul(SizeT(numPtrs - 1), kDefaultTileSize)), LAMBDA tailSize :
            IF Less(tailSize, SizeT(kDefaultTileSize))
            THEN Sub(whole, Sub(SizeT(kDefaultTileSize), tailSize))
            ELSE whole)

RECURSIVE Flatten(_)
Flatten(ss) == IF ss = <<>> THEN <<>> ELSE Head(ss) \o Flatten(Tail(ss))

\* uint32_t tileOffset = (i == 0) ? 0 : tilePtrs[i]  (i counted from 0)
WriterTileOffset(i, entry) == IF i = 0 THEN U32(0) ELSE entry

\* one round of the loop that writes the tiles
WriteTile(os, tile, dataOffset, tileOffset) ==
    StreamOut(SetPos(os, Add(dataOffset, Ext(tileOffset, SizeofU64))), PageBlock(tile.data))

RECURSIVE WriteTiles(_, _, _, _, _)
WriteTiles(os, tiles, tilePtrs, dataOffset, i) ==
    IF i >= Len(tilePtrs) THEN os
    ELSE Bind(WriteTile(os, tiles[i + 1], dataOffset, WriterTileOffset(i, tilePtrs[i + 1])),
              LAMBDA next : WriteTiles(next, tiles, tilePtrs, dataOffset, i + 1))

\* DoCompress from "Compression is done. Prepare the output stream." on:
\* the OutputStreamWrapper when the function returns
Serialize(tiles, inputSize, size) ==
    Bind(TilePtrs(tiles), LAMBDA tilePtrs :
        LET header == TileStream(UncompressedSizeOf(Len(tilePtrs), inputSize))
            os1    == StreamOut(OutputStreamWrapper({}, size), BytesBlock(HeaderBytes(header)))
        IN  Bind(StreamOut(os1, BytesBlock(Flatten(tilePtrs))), LAMBDA os2 :
                WriteTiles(os2, tiles, tilePtrs, os2.pos, 0)))

\* ------------------------------------------------------------------------
\* GDeflateDecompress.cpp
\* ------------------------------------------------------------------------
\* ValidateStream without the test of the id
ValidateMagicOnly(header) == IsValid(header)

ValidateStream(header) == IsValid(header) /\ header.id = kGDeflateId

\* tileOffsets[i] read from the input (i counted from 0)
TileOffsetsAt(input, i) == ReadBytes(input, SizeofTileStream + SizeofU32 * i, SizeofU32)

\* const size_t tileOffset = tileIndex > 0 ? tileOffsets[tileIndex] : 0
ReaderTileOffset(tileIndex, entry) ==
    IF tileIndex > 0 THEN Ext(entry, SizeofU64) ELSE SizeT(0)

\* compressedPage.nbytes, from tileOffsets[tileIndex + 1] and tileOffsets[0]
ReaderTileBytes(tileIndex, numItems, tileOffset, entryNext, entry0) ==
    IF tileIndex < numItems - 1
    THEN Sub(Ext(entryNext, SizeofU64), tileOffset)
    ELSE Ext(entry0, SizeofU64)

\* inDataPtr - in
InDataOffset(numItems) == SizeT(SizeofTileStream + SizeofU32 * numItems)

\* the tile decoded at outputPtr + tileIndex
DecodeTileUnscaled(input, tileIndex, numItems, tileOffset, nbytes) ==
    LET page   == ReadPage(input, Add(InDataOffset(numItems), tileOffset), nbytes)
        stored == GDeflateDecompressPage(page, kDefaultTileSize)
    IN  [pos |-> SizeT(tileIndex), len |-> stored.len, sym |-> stored.sym]

\* libdeflate_gdeflate_decompress on the page at inDataPtr + tileOffset: what it
\* stores, and where in the output
DecodeTile(input, tileIndex, numItems, tileOffset, nbytes) ==
    LET page   == ReadPage(input, Add(InDataOffset(numItems), tileOffset), nbytes)
        stored == GDeflateDecompressPage(page, kDefaultTileSize)
    IN  [pos |-> Ext(Mul(U32(tileIndex), kDefaultTileSize), SizeofU64),
         len |-> stored.len, sym |-> stored.sym]

\* the bytes [inDataPtr + tileOffset, + nbytes) and the index before them lie
\* inside the inputSize bytes at in
SpanInBounds(inputSize, numItems, tileOffset, nbytes) ==
    LET first == Add(InDataOffset(numItems), tileOffset)
        last  == Add(first, nbytes)
    IN  /\ Leq(InDataOffset(numItems), inputSize)
        /\ Leq(first, last)
        /\ Leq(last, inputSize)

\* the body of the loop of TileDecompressionJob for one claimed tileIndex
DecompressedTile(input, tileIndex, numItems) ==
    LET tileOffset == ReaderTileOffset(tileIndex, TileOffsetsAt(input, tileIndex))
        nbytes     == ReaderTileBytes(tileIndex, numItems, tileOffset,
                                      TileOffsetsAt(input, tileIndex + 1),
                                      TileOffsetsAt(input, 0))
    IN  DecodeTile(input, tileIndex, numItems, tileOffset, nbytes)

\* what the round can do: reading past the end of the input is undefined, the
\* codec may then see the bytes that lie there, or others, or the read faults
TileOutcomes(input, inputSize, tileIndex, numItems) ==
    LET tileOffset == ReaderTileOffset(tileIndex, TileOffsetsAt(input, tileIndex))
        nbytes     == ReaderTileBytes(tileIndex, numItems, tileOffset,
                                      TileOffsetsAt(input, tileIndex + 1),
                                      TileOffsetsAt(input, 0))
        stored     == DecompressedTile(input, tileIndex, numItems)
    IN  IF SpanInBounds(inputSize, numItems, tileOffset, nbytes)
        THEN {stored}
        ELSE {stored,
              [stored EXCEPT !.sym = "garbage", !.len = 0],
              [stored EXCEPT !.sym = "fault", !.len = 0]}

\* ------------------------------------------------------------------------
\* Bounds of the model and the arguments it draws
\* ------------------------------------------------------------------------
MaxTiles == 5          \* inputs of up to MaxTiles tiles
MaxHwThreads == 2      \* std::thread::hardware_concurrency() in 0..MaxHwThreads
MaxNumWorkers == 2     \* Decompress's numWorkers in 0..MaxNumWorkers, and 32
ExtraCapacity == 4096  \* the output buffer is CompressBound(n) bytes, or this many more

\* input sizes: 0, and for every tile count the sizes around a tile boundary
InSizes ==
    {0} \cup {(k - 1) * kDefaultTileSize + r :
                 k \in 1..MaxTiles, r \in {1, kDefaultTileSize - 1, kDefaultTileSize}}

Inputs == [size : {SizeT(n) : n \in InSizes}, pattern : Patterns]
Levels == {MinimumCompressionLevel, MaximumCompressionLevel}
Capacities(size) ==
    {CompressBound(size), Add(CompressBound(size), SizeT(ExtraCapacity))}
FlagsValues == {0, COMPRESS_SINGLE_THREAD}
NumWorkersValues == 0..MaxNumWorkers \cup {kMaxWorkers + 1}

\* ------------------------------------------------------------------------
\* State
\* ------------------------------------------------------------------------
VARIABLES
    in,             \* Compress's input: [size, pattern]
    level,          \* Compress's level
    capacity,       \* *outputSize as the caller passes it to Compress
    pc,             \* where the calling thread is
    numWorkersLeft, \* the local of DoCompress / Decompress
    context,        \* CompressionContext / DecompressionContext
    workers,        \* std::thread workers[]: the threads started, in array order
    joined,         \* how many of them the join loop has joined
    caller,         \* the calling thread inside the tile job
    stream,         \* Compress's output buffer
    streamSize,     \* *outputSize as Compress leaves it
    cResult,        \* Compress's return value (FALSE until it returns)
    output,         \* Decompress's output buffer
    dResult,        \* Decompress's return value
    cCalls,         \* bag of the tile indices handed to libdeflate_gdeflate_compress
    dCalls,         \* bag of the tile indices handed to libdeflate_gdeflate_decompress
    args,           \* the arguments of the calls made so far
    big,            \* the serial loops over a stream of up to kMaxTiles tiles (SpecBig)
    hdr,            \* one header written and read back (SpecHeader)
    marcFile,       \* a MarcFile of BulkLoadDemo: its members (SpecMarc)
    marcLog,        \* what its content loads did so far
    custom,         \* GpuDecompressionBenchmark's CustomDecompression (SpecCustom)
    mini,           \* MiniEngine's DStorageLoader: one DecompressionRequest (SpecMini)
    loader,         \* BulkLoadDemo's DStorageLoader: custom decompression (SpecLoader)
    multiHeap,      \* BulkLoadDemo's MultiHeap: one object and its use (SpecHeap)
    manager         \* BulkLoadDemo and its MarcFileManager (SpecManager)

mainVars == <<args, in, level, capacity, pc, numWorkersLeft, context, workers, joined, caller,
              stream, streamSize, cResult, output, dResult, cCalls, dCalls>>

\* the samples: each one's variables, and the other samples' beside them
marcVars == <<marcFile, marcLog>>
besidesMarc == <<custom, mini, loader, multiHeap, manager>>
besidesCustom == <<marcVars, mini, loader, multiHeap, manager>>
besidesMini == <<marcVars, custom, loader, multiHeap, manager>>
besidesLoader == <<marcVars, custom, mini, multiHeap, manager>>
besidesHeap == <<marcVars, custom, mini, loader, manager>>
besidesManager == <<marcVars, custom, mini, loader, multiHeap>>
sampleVars == <<marcVars, custom, mini, loader, multiHeap, manager>>

vars == <<mainVars, big, hdr, sampleVars>>

NoContext ==
    [inputSize |-> SizeT(0), outputSize |-> SizeT(0), tiles |-> <<>>,
     globalIndex |-> U32(0), numItems |-> U32(0)]

Idle == [pc |-> "idle", tileIndex |-> U32(0)]
AtFetch == [pc |-> "fetch", tileIndex |-> U32(0)]

\* no call made yet, and the stream as Compress left it
NoArgs ==
    [flags |-> 0, hardwareConcurrency |-> 0, null |-> "none",
     numWorkers |-> 0, bad |-> "none", tamper |-> "none"]

NoBig == [step |-> "off"]
NoHdr == [step |-> "off"]

\* MarcFile as OnCpuMetadataLoaded leaves it: m_state = MetadataReady, no
\* content request enqueued, no Model
MarcFileReady ==
    [m_state |-> "MetadataReady", m_status |-> "S_OK", m_model |-> 0,
     m_statusArray |-> [CpuData |-> "S_OK", GpuData |-> "S_OK"],
     m_cpuDataLoaded |-> "idle", m_gpuDataLoaded |-> "idle"]

\* of the content load under way: its number, the callbacks that ran, in
\* order, the calls of OnAllDataLoaded, and whether OnCpuDataLoaded met an
\* animation curve it does not support
NoMarcLog == [loads |-> 0, ran |-> <<>>, all |-> 0, weights |-> FALSE]

\* no CustomDecompression object constructed yet; afterwards: the requests
\* DirectStorage holds for the callback, where the callback and the destructor
\* are, the members, and how often SetRequestResults was called per request
NoCustom ==
    [built |-> "no", submitted |-> 0, queue |-> <<>>, callback |-> "unset", requests |-> <<>>,
     m_threads |-> <<>>, m_mutex |-> FALSE, m_quit |-> FALSE, m_requests |-> <<>>,
     joined |-> 0, results |-> <<>>]

\* MiniEngine: no request scheduled yet; afterwards the request's DstSize,
\* the heap object *r, the OnDecompress tasks submitted, the results given to
\* SetRequestResults, and whether a task used *r after its deletion
NoMini ==
    [DstSize |-> 0, submitted |-> 0,
     dr |-> [state |-> "none", NextBlock |-> 0, NumBlocksCompleted |-> 0, ErrorCode |-> "Z_OK"],
     tasks |-> <<>>, results |-> <<>>, usedAfterDelete |-> FALSE]

\* BulkLoadDemo's loader after InitializeDStorage: the requests DirectStorage
\* holds for the callback, where OnCustomDecompressionRequestsAvailable is,
\* the batch it took and the works it still has to submit, the works the
\* threadpool has to run, the requests DecompressionWork callbacks are busy
\* with, the deque, the calls of SetRequestResults per request, and whether
\* the ASSERT of DecompressionWork failed
LoaderReady ==
    [enqueued |-> 0, queue |-> <<>>, callback |-> "armed", requests |-> <<>>, toSubmit |-> 0,
     g_decompressionWork |-> 0, busy |-> <<>>, g_decompressionRequests |-> <<>>,
     results |-> <<>>, assertFailed |-> FALSE]

\* no MultiHeap constructed yet; afterwards m_heaps, the allocations handed
\* out since the last Clear() with their sizes, the last CanAllocate call (its
\* argument, its result, and whether nothing was allocated since), and whether
\* an assert of Allocate failed
NoMultiHeap ==
    [built |-> FALSE, m_heaps |-> <<>>, allocations |-> <<>>, clears |-> 0,
     canAllocate |-> [allocations |-> <<>>, result |-> FALSE, current |-> FALSE],
     assertFailed |-> FALSE]

\* BulkLoadDemo before Startup constructs its MarcFileManager: whether the
\* manager exists, whether Startup returned (Update was called), BulkLoadDemo's
\* m_state, the manager's members, the sets loaded so far, the content loads
\* the last SetNextSet started, and the function an exception left, if any
NoManager ==
    [built |-> FALSE, running |-> FALSE, app |-> "Idle", m_state |-> "LoadingMetadata",
     m_files |-> <<>>, m_texturesHeap |-> NoMultiHeap, m_buffersHeap |-> NoMultiHeap,
     m_currentSetSize |-> [TexturesByteCount |-> SizeT(0), BuffersByteCount |-> SizeT(0)],
     m_numLoadedModels |-> 0, sets |-> 0, started |-> 0, threw |-> "none"]

SamplesIdle ==
    /\ marcFile = MarcFileReady /\ marcLog = NoMarcLog
    /\ custom = NoCustom /\ mini = NoMini /\ loader = LoaderReady
    /\ multiHeap = NoMultiHeap /\ manager = NoManager

Init ==
    /\ args = NoArgs
    /\ big = NoBig
    /\ hdr = NoHdr
    /\ SamplesIdle
    /\ in \in Inputs
    /\ level \in Levels
    /\ capacity \in Capacities(in.size)
    /\ pc = "Start"
    /\ numWorkersLeft = 0
    /\ context = NoContext
    /\ workers = <<>>
    /\ joined = 0
    /\ caller = Idle
    /\ stream = {}
    /\ streamSize = capacity
    /\ cResult = FALSE
    /\ output = {}
    /\ dResult = FALSE
    /\ cCalls = EmptyBag
    /\ dCalls = EmptyBag

\* ------------------------------------------------------------------------
\* The tile loop shared by both jobs
\* ------------------------------------------------------------------------
MinNat(a, b) == IF a < b THEN a ELSE b
MaxNat(a, b) == IF a < b THEN b ELSE a

\* context.globalIndex.fetch_add(1, std::memory_order_relaxed): the new value
FetchAdd(globalIndex) == Add(globalIndex, U32(1))

\* the loop test off by one
ClaimsInclusive(tileIndex, numItems) == Leq(tileIndex, numItems)

\* the loop goes on unless tileIndex >= context.numItems
Claims(tileIndex, numItems) == Less(tileIndex, numItems)

ThreadAt(t) == IF t = 0 THEN caller ELSE workers[t]

SetThread(t, r) ==
    IF t = 0 THEN caller' = r /\ UNCHANGED workers
    ELSE workers' = [workers EXCEPT ![t] = r] /\ UNCHANGED caller

\* the threads that run the job now: the workers started, and the caller once
\* it has called the job itself
Running(spawnPc, jobPc) ==
    IF pc = jobPc THEN 0..Len(workers)
    ELSE IF pc = spawnPc THEN 1..Len(workers) ELSE {}

\* one round of "while (true)" up to the break or the claimed tile
Fetch(t) ==
    /\ ThreadAt(t).pc = "fetch"
    /\ LET tileIndex == context.globalIndex
       IN  /\ context' = [context EXCEPT !.globalIndex = FetchAdd(@)]
           /\ SetThread(t, IF Claims(tileIndex, context.numItems)
                           THEN [pc |-> "tile", tileIndex |-> tileIndex]
                           ELSE [pc |-> "done", tileIndex |-> tileIndex])

\* a join that does not wait
JoinableAtOnce(w) == TRUE

\* a join that never returns
JoinableNever(w) == FALSE

\* worker.join() returns once the thread's function has returned
Joinable(w) == w.pc = "done"

JoinNext ==
    /\ caller.pc = "done"
    /\ joined < Len(workers)
    /\ Joinable(workers[joined + 1])
    /\ joined' = joined + 1

\* ------------------------------------------------------------------------
\* Compress
\* ------------------------------------------------------------------------
\* the worker count with the tile count divided rounding down
CompressWorkersFloor(numItems, flags, hardwareConcurrency) ==
    LET maxWorkers == MinNat(kMaxWorkers, hardwareConcurrency)
        byTiles    == ToNat(Div(numItems, kMinTilesPerWorker))
    IN  IF (flags \div COMPRESS_SINGLE_THREAD) % 2 = 1 THEN 0
        ELSE MinNat(maxWorkers, byTiles)

\* the worker count with the flags ignored
CompressWorkersAnyFlags(numItems, flags, hardwareConcurrency) ==
    LET maxWorkers == MinNat(kMaxWorkers, hardwareConcurrency)
        byTiles    == ToNat(Div(Add(numItems, U32(kMinTilesPerWorker - 1)),
                                kMinTilesPerWorker))
    IN  MinNat(maxWorkers, byTiles)

\* uint32_t numWorkersLeft of DoCompress
CompressWorkers(numItems, flags, hardwareConcurrency) ==
    LET maxWorkers == MinNat(kMaxWorkers, hardwareConcurrency)
        byTiles    == ToNat(Div(Add(numItems, U32(kMinTilesPerWorker - 1)),
                                kMinTilesPerWorker))
    IN  IF (flags \div COMPRESS_SINGLE_THREAD) % 2 = 1 THEN 0
        ELSE MinNat(maxWorkers, byTiles)

\* the size test with >= for >
InputTooLargeInclusive(inSize) ==
    Leq(Ext(Mul(U32(kDefaultTileSize), kMaxTiles), SizeofU64), inSize)

\* inSize > kDefaultTileSize * TileStream::kMaxTiles (the product is a uint32_t)
InputTooLarge(inSize) ==
    Less(Ext(Mul(U32(kDefaultTileSize), kMaxTiles), SizeofU64), inSize)

\* context.numItems
NumItemsOf(inSize) ==
    Trunc(Div(Add(inSize, SizeT(kDefaultTileSize - 1)), kDefaultTileSize), SizeofU32)

\* the pointer arguments of Compress, of which one may be null
CompressNulls == {"none", "output", "outputSize", "in"}

\* DoCompress up to the loop that starts the workers
CompressBegin(flags, hardwareConcurrency, null) ==
    /\ pc = "Start"
    /\ IF null # "none" \/ IsZero(in.size) \/ InputTooLarge(in.size)
       THEN /\ pc' = "C_Done"
            /\ cResult' = FALSE
            /\ UNCHANGED <<context, numWorkersLeft>>
       ELSE /\ pc' = "C_Spawn"
            /\ context' = [NoContext EXCEPT
                    !.inputSize = in.size,
                    !.numItems = NumItemsOf(in.size),
                    !.tiles = [i \in 1..ToNat(NumItemsOf(in.size)) |-> EmptyTile]]
            /\ numWorkersLeft' =
                    CompressWorkers(NumItemsOf(in.size), flags, hardwareConcurrency)
            /\ UNCHANGED cResult
    /\ UNCHANGED <<big, hdr, sampleVars, in, level, capacity, workers, joined, caller, stream, streamSize,
                   output, dResult, cCalls, dCalls>>

\* Compress called with valid pointers
CompressCall(flags, hardwareConcurrency) ==
    /\ CompressBegin(flags, hardwareConcurrency, "none")
    /\ args' = [args EXCEPT !.flags = flags]

\* Compress called with any arguments, all of them on record
CompressEntry(flags, hardwareConcurrency, null) ==
    /\ CompressBegin(flags, hardwareConcurrency, null)
    /\ args' = [args EXCEPT !.flags = flags,
                            !.hardwareConcurrency = hardwareConcurrency,
                            !.null = null]

\* one round of the loop over workers[kMaxWorkers + 1] that starts a thread
CompressSpawn ==
    /\ pc = "C_Spawn"
    /\ numWorkersLeft # 0
    /\ Len(workers) < kMaxWorkers + 1
    /\ workers' = Append(workers, AtFetch)
    /\ numWorkersLeft' = numWorkersLeft - 1
    /\ UNCHANGED <<args, big, hdr, sampleVars, in, level, capacity, pc, context, joined, caller, stream, streamSize,
                   cResult, output, dResult, cCalls, dCalls>>

\* the loop is left and the caller runs TileCompressionJob() itself
CompressCallerJob ==
    /\ pc = "C_Spawn"
    /\ numWorkersLeft = 0 \/ Len(workers) = kMaxWorkers + 1
    /\ pc' = "C_Job"
    /\ caller' = AtFetch
    /\ UNCHANGED <<args, big, hdr, sampleVars, in, level, capacity, numWorkersLeft, context, workers, joined, stream,
                   streamSize, cResult, output, dResult, cCalls, dCalls>>

CompressFetch(t) ==
    /\ t \in Running("C_Spawn", "C_Job")
    /\ Fetch(t)
    /\ UNCHANGED <<args, big, hdr, sampleVars, in, level, capacity, pc, numWorkersLeft, joined, stream, streamSize,
                   cResult, output, dResult, cCalls, dCalls>>

\* the tile stored in the first free slot, in order of completion
StoreTileInOrder(tiles, tileIndex, tile) ==
    LET free == {i \in 1..Len(tiles) : tiles[i] = EmptyTile}
    IN  IF free = {} THEN tiles
        ELSE [tiles EXCEPT ![CHOOSE i \in free : \A j \in free : i <= j] = tile]

\* context.tiles[tileIndex] after the round's stores
StoreTile(tiles, tileIndex, tile) ==
    IF ToNat(tileIndex) < Len(tiles)
    THEN [tiles EXCEPT ![ToNat(tileIndex) + 1] = tile]
    ELSE tiles

\* the rest of the round of TileCompressionJob: compress the tile, store it
CompressTile(t) ==
    /\ t \in Running("C_Spawn", "C_Job")
    /\ ThreadAt(t).pc = "tile"
    /\ LET tileIndex == ThreadAt(t).tileIndex
       IN  /\ \E tile \in CompressOutcomes(in, level, tileIndex) :
                /\ context' = [context EXCEPT !.tiles =
                        IF tile.data.sym = "fault" THEN @ ELSE StoreTile(@, tileIndex, tile)]
                /\ pc' = IF tile.data.sym = "fault" THEN "C_Fault" ELSE pc
           /\ cCalls' = cCalls (+) SetToBag({ToNat(tileIndex)})
    /\ SetThread(t, AtFetch)
    /\ UNCHANGED <<args, big, hdr, sampleVars, in, level, capacity, numWorkersLeft, joined, stream, streamSize,
                   cResult, output, dResult, dCalls>>

CompressJoin ==
    /\ pc = "C_Job"
    /\ JoinNext
    /\ UNCHANGED <<args, big, hdr, sampleVars, in, level, capacity, pc, numWorkersLeft, context, workers, caller,
                   stream, streamSize, cResult, output, dResult, cCalls, dCalls>>

\* all joined: the stream is built and written, *outputSize set, true returned
CompressAssemble ==
    /\ pc = "C_Job"
    /\ caller.pc = "done"
    /\ joined = Len(workers)
    /\ LET os == Serialize(context.tiles, context.inputSize, capacity)
       IN  /\ stream' = os.ptr
           /\ streamSize' = os.pos
    /\ cResult' = TRUE
    /\ pc' = "C_Done"
    /\ UNCHANGED <<args, big, hdr, sampleVars, in, level, capacity, numWorkersLeft, context, workers, joined, caller,
                   output, dResult, cCalls, dCalls>>

\* ------------------------------------------------------------------------
\* Decompress, called on what Compress returned with an output buffer of
\* in.size bytes (GDeflateTest's Validate)
\* ------------------------------------------------------------------------
\* numWorkers clamped from below only
ClampWorkersBelow(numWorkers) == MaxNat(1, numWorkers)

\* numWorkers after the two clamps
ClampWorkers(numWorkers) == MaxNat(1, MinNat(kMaxWorkers, numWorkers))

\* numWorkersLeft by the rule of DoCompress: one worker per kMinTilesPerWorker tiles
DecompressWorkersPerTiles(numItems, numWorkers) ==
    MinNat(numWorkers, (numItems + kMinTilesPerWorker - 1) \div kMinTilesPerWorker) + 1

\* uint32_t numWorkersLeft of Decompress
DecompressWorkers(numItems, numWorkers) ==
    IF numItems > 2 * numWorkers THEN numWorkers ELSE 1

\* the arguments of Decompress, of which one may be null or zero
DecompressBads == {"none", "output", "in", "outputSize", "inSize"}

\* Decompress(output, outputSize, in, inSize, numWorkers) on the buffer Compress
\* filled: outputSize is the size of the original, inSize what Compress reported
DecompressBegin(numWorkers, bad) ==
    /\ pc = "C_Done"
    /\ cResult = TRUE
    /\ LET header == HeaderAt(ReadBytes(stream, 0, SizeofTileStream))
       IN  IF \/ bad # "none"
              \/ IsZero(in.size) \/ IsZero(streamSize)
              \/ ~ValidateStream(header)
           THEN /\ pc' = "D_Done"
                /\ dResult' = FALSE
                /\ UNCHANGED <<context, numWorkersLeft>>
           ELSE /\ pc' = "D_Spawn"
                /\ context' = [NoContext EXCEPT
                        !.inputSize = streamSize,
                        !.outputSize = GetUncompressedSize(header),
                        !.numItems = U32(header.numTiles)]
                /\ numWorkersLeft' =
                        DecompressWorkers(header.numTiles, ClampWorkers(numWorkers))
                /\ UNCHANGED dResult
    /\ workers' = <<>>
    /\ joined' = 0
    /\ caller' = Idle
    /\ UNCHANGED <<big, hdr, sampleVars, in, level, capacity, stream, streamSize, cResult, output, cCalls, dCalls>>

\* Decompress called with valid pointers and sizes
DecompressCall(numWorkers) ==
    /\ DecompressBegin(numWorkers, "none")
    /\ UNCHANGED args

\* Decompress called with any arguments, all of them on record
DecompressEntry(numWorkers, bad) ==
    /\ DecompressBegin(numWorkers, bad)
    /\ args' = [args EXCEPT !.numWorkers = numWorkers, !.bad = bad]

\* one round of the loop over workers[kMaxWorkers] that starts a thread
DecompressSpawn ==
    /\ pc = "D_Spawn"
    /\ numWorkersLeft # 1
    /\ Len(workers) < kMaxWorkers
    /\ workers' = Append(workers, AtFetch)
    /\ numWorkersLeft' = numWorkersLeft - 1
    /\ UNCHANGED <<args, big, hdr, sampleVars, in, level, capacity, pc, context, joined, caller, stream, streamSize,
                   cResult, output, dResult, cCalls, dCalls>>

DecompressCallerJob ==
    /\ pc = "D_Spawn"
    /\ numWorkersLeft = 1 \/ Len(workers) = kMaxWorkers
    /\ pc' = "D_Job"
    /\ caller' = AtFetch
    /\ UNCHANGED <<args, big, hdr, sampleVars, in, level, capacity, numWorkersLeft, context, workers, joined, stream,
                   streamSize, cResult, output, dResult, cCalls, dCalls>>

DecompressFetch(t) ==
    /\ t \in Running("D_Spawn", "D_Job")
    /\ Fetch(t)
    /\ UNCHANGED <<args, big, hdr, sampleVars, in, level, capacity, pc, numWorkersLeft, joined, stream, streamSize,
                   cResult, output, dResult, cCalls, dCalls>>

\* the rest of the round of TileDecompressionJob: decode the tile into the output
DecompressTile(t) ==
    /\ t \in Running("D_Spawn", "D_Job")
    /\ ThreadAt(t).pc = "tile"
    /\ LET tileIndex == ToNat(ThreadAt(t).tileIndex)
       IN  /\ \E stored \in TileOutcomes(stream, context.inputSize, tileIndex,
                                          ToNat(context.numItems)) :
                /\ output' = {e \in output : e.pos # stored.pos} \cup {stored}
                /\ pc' = IF stored.sym = "fault" THEN "D_Fault" ELSE pc
           /\ dCalls' = dCalls (+) SetToBag({tileIndex})
    /\ SetThread(t, AtFetch)
    /\ UNCHANGED <<args, big, hdr, sampleVars, in, level, capacity, numWorkersLeft, context, joined, stream,
                   streamSize, cResult, dResult, cCalls>>

DecompressJoin ==
    /\ pc = "D_Job"
    /\ JoinNext
    /\ UNCHANGED <<args, big, hdr, sampleVars, in, level, capacity, pc, numWorkersLeft, context, workers, caller,
                   stream, streamSize, cResult, output, dResult, cCalls, dCalls>>

DecompressReturn ==
    /\ pc = "D_Job"
    /\ caller.pc = "done"
    /\ joined = Len(workers)
    /\ dResult' = TRUE
    /\ pc' = "D_Done"
    /\ UNCHANGED <<args, big, hdr, sampleVars, in, level, capacity, numWorkersLeft, context, workers, joined, caller,
                   stream, streamSize, cResult, output, cCalls, dCalls>>

ThreadIds == 0..kMaxWorkers + 1

Next ==
    \/ \E flags \in FlagsValues, hc \in 0..MaxHwThreads : CompressCall(flags, hc)
    \/ CompressSpawn
    \/ CompressCallerJob
    \/ \E t \in ThreadIds : CompressFetch(t)
    \/ \E t \in ThreadIds : CompressTile(t)
    \/ CompressJoin
    \/ CompressAssemble
    \/ \E numWorkers \in NumWorkersValues : DecompressCall(numWorkers)
    \/ DecompressSpawn
    \/ DecompressCallerJob
    \/ \E t \in ThreadIds : DecompressFetch(t)
    \/ \E t \in ThreadIds : DecompressTile(t)
    \/ DecompressJoin
    \/ DecompressReturn

Spec == Init /\ [][Next]_vars

\* ------------------------------------------------------------------------
\* DoCompress's serial part and TileDecompressionJob's reads on streams of up
\* to kMaxTiles tiles.  The loop that pushes tilePtrs and the loop that writes
\* the tiles both visit tile i with tilePtrs[i] only, so they run here in one
\* round per tile; of the tiles done the state keeps tile 0, tile 1 and the
\* last two (their index entry, where they were written, and their bytes).
\* ------------------------------------------------------------------------
BigRounds == 8     \* rounds stepped one by one before the last tile of a large stream
BigSmallTiles == 3 \* the small streams have up to this many tiles

\* the tiles of the window after round i
Kept(i) == {0, 1, i - 1, i}

\* the compress side when the loop over context.tiles is entered
\* (the header and the index are streamed out before any tile is written)
BigStart(input, lvl) ==
    LET numItems == ToNat(NumItemsOf(input.size))
        size     == CompressBound(input.size)
        header   == TileStream(UncompressedSizeOf(numItems, input.size))
        os1 == StreamOut(OutputStreamWrapper({}, size), BytesBlock(HeaderBytes(header)))
        os2 == StreamOut(os1, [bytes |-> <<>>, page |-> NoPage,
                               size |-> SizeT(SizeofU32 * numItems)])
    IN  [step |-> "compress", in |-> input, level |-> lvl, numItems |-> numItems,
         i |-> 0, dataPos |-> SizeT(0), dataOffset |-> os2.pos,
         os |-> [os2 EXCEPT !.ptr = {e \in os1.ptr : e.bytes # <<>>}],
         win |-> {}, entry0 |-> U32(0), streamSize |-> SizeT(0), decoded |-> {}]

\* round b.i of the two loops: push tilePtrs[i], advance dataPos, write tile i
Round(b) ==
    LET i          == b.i
        tile       == CompressedTile(b.in, b.level, U32(i))
        entry      == TilePtrOf(b.dataPos)
        tileOffset == WriterTileOffset(i, entry)
        os0        == SetPos(b.os, Add(b.dataOffset, Ext(tileOffset, SizeofU64)))
        os1        == WriteTile(b.os, tile, b.dataOffset, tileOffset)
        rec        == [tile |-> i, entry |-> entry, sum |-> b.dataPos,
                       data |-> tile.data, uncompressedSize |-> tile.uncompressedSize,
                       at |-> os0.pos, wrote |-> Sub(os1.pos, os0.pos)]
        win        == {r \in b.win : r.tile \in Kept(i)} \cup {rec}
    IN  [b EXCEPT !.i = i + 1,
                  !.dataPos = NextDataPos(b.dataPos, tile),
                  !.win = win,
                  !.os = [os1 EXCEPT !.ptr =
                            {e \in os1.ptr : e.bytes # <<>> \/ \E r \in win : r.at = e.pos}]]

\* n rounds in order
RECURSIVE Rounds(_, _)
Rounds(b, n) ==
    IF n = 0 THEN b
    ELSE IF n = 1 THEN Round(b)
    ELSE LET half == Rounds(b, n \div 2)
         IN  IF half.i = b.i + n \div 2 THEN Rounds(half, n - n \div 2) ELSE half

BigSizes ==
    {(k - 1) * kDefaultTileSize + r :
        k \in 1..BigSmallTiles, r \in {1, kDefaultTileSize - 1, kDefaultTileSize}}

BigSmallInputs == [size : {SizeT(n) : n \in BigSizes}, pattern : Patterns]
\* one large stream: kMaxTiles whole tiles of incompressible bytes
BigLargeInputs ==
    [size : {Mul(SizeT(kMaxTiles), kDefaultTileSize)}, pattern : {"rand"}]
BigLargeLevels == {MaximumCompressionLevel}

InitBig ==
    /\ args = NoArgs
    /\ big \in {BigStart(input, lvl) : input \in BigSmallInputs, lvl \in Levels}
               \cup {Rounds(BigStart(input, lvl), kMaxTiles - BigRounds) :
                        input \in BigLargeInputs, lvl \in BigLargeLevels}
    /\ hdr = NoHdr
    /\ SamplesIdle
    /\ in = [size |-> SizeT(0), pattern |-> "zero"]
    /\ level = MinimumCompressionLevel
    /\ capacity = SizeT(0)
    /\ pc = "Off"
    /\ numWorkersLeft = 0
    /\ context = NoContext
    /\ workers = <<>>
    /\ joined = 0
    /\ caller = Idle
    /\ stream = {}
    /\ streamSize = SizeT(0)
    /\ cResult = FALSE
    /\ output = {}
    /\ dResult = FALSE
    /\ cCalls = EmptyBag
    /\ dCalls = EmptyBag

BigRound ==
    /\ big.step = "compress"
    /\ big.i < big.numItems
    /\ big' = Round(big)
    /\ UNCHANGED <<mainVars, hdr, sampleVars>>

\* tilePtrs[0] gets the last tile's size, *outputSize = os.GetPos(), return true
BigFinish ==
    /\ big.step = "compress"
    /\ big.i = big.numItems
    /\ big' = [big EXCEPT
            !.step = "decompress",
            !.entry0 = LastTileEntry(CHOOSE r \in big.win : r.tile = big.numItems - 1),
            !.streamSize = big.os.pos]
    /\ UNCHANGED <<mainVars, hdr, sampleVars>>

\* tileOffsets[t] of the stream written, for the tiles the state keeps
BigEntry(b, t) ==
    IF t = 0 THEN b.entry0
    ELSE IF \E r \in b.win : r.tile = t THEN (CHOOSE r \in b.win : r.tile = t).entry
    ELSE U32(0)

\* the reader's tileOffset and compressedPage.nbytes for tile t
BigReaderOffset(b, t) == ReaderTileOffset(t, BigEntry(b, t))
BigReaderBytes(b, t) ==
    ReaderTileBytes(t, b.numItems, BigReaderOffset(b, t), BigEntry(b, t + 1), b.entry0)

\* one round of TileDecompressionJob on tile t of the stream written
BigDecode(t) ==
    /\ big.step = "decompress"
    /\ \E r \in big.win : r.tile = t
    /\ t = big.numItems - 1 \/ \E r \in big.win : r.tile = t + 1
    /\ \A d \in big.decoded : d.tile # t
    /\ LET stored == DecodeTile(big.os.ptr, t, big.numItems,
                                BigReaderOffset(big, t), BigReaderBytes(big, t))
       IN  big' = [big EXCEPT !.decoded = @ \cup
                        {[tile |-> t, pos |-> stored.pos, len |-> stored.len,
                          sym |-> stored.sym]}]
    /\ UNCHANGED <<mainVars, hdr, sampleVars>>

BigTiles == 0..BigSmallTiles \cup (kMaxTiles - BigRounds - 1)..(kMaxTiles - 1)

NextBig ==
    \/ BigRound
    \/ BigFinish
    \/ \E t \in BigTiles : BigDecode(t)

SpecBig == InitBig /\ [][NextBig]_vars

\* ------------------------------------------------------------------------
\* The header alone, for input sizes over the whole range Compress accepts:
\* DoCompress builds and streams it out, Decompress reads it back.
\* ------------------------------------------------------------------------
\* an input of k whole tiles and r more bytes
HeaderWhole == {0, 1, 2, 3, 255, 256, 257, 4095, 4096, 32767, 32768, 65533, 65534, 65535}
HeaderRest == {0, 1, 2, 3, 255, 256, 257, 65534, 65535}

HeaderSize(k, r) == Add(Mul(SizeT(k), kDefaultTileSize), SizeT(r))

InitHeader ==
    /\ args = NoArgs
    /\ hdr \in {[step |-> "input", k |-> k, r |-> r, size |-> HeaderSize(k, r)] :
                  k \in HeaderWhole, r \in HeaderRest}
    /\ ~IsZero(hdr.size)
    /\ ~InputTooLarge(hdr.size)
    /\ big = NoBig
    /\ SamplesIdle
    /\ in = [size |-> SizeT(0), pattern |-> "zero"]
    /\ level = MinimumCompressionLevel
    /\ capacity = SizeT(0)
    /\ pc = "Off"
    /\ numWorkersLeft = 0
    /\ context = NoContext
    /\ workers = <<>>
    /\ joined = 0
    /\ caller = Idle
    /\ stream = {}
    /\ streamSize = SizeT(0)
    /\ cResult = FALSE
    /\ output = {}
    /\ dResult = FALSE
    /\ cCalls = EmptyBag
    /\ dCalls = EmptyBag

\* "calculate uncompressed size", TileStream header(uncompressedSize),
\* os.StreamOut(&header, sizeof(header))
HeaderWrite ==
    /\ hdr.step = "input"
    /\ LET numPtrs == ToNat(NumItemsOf(hdr.size))
           header  == TileStream(UncompressedSizeOf(numPtrs, hdr.size))
           os      == StreamOut(OutputStreamWrapper({}, CompressBound(hdr.size)),
                                BytesBlock(HeaderBytes(header)))
       IN  hdr' = [step |-> "written", k |-> hdr.k, r |-> hdr.r, size |-> hdr.size,
                   bytes |-> ReadBytes(os.ptr, 0, SizeofTileStream)]
    /\ UNCHANGED <<mainVars, big, sampleVars>>

\* Decompress: header = reinterpret_cast<const TileStream*>(in), ValidateStream,
\* header->GetUncompressedSize(), header->numTiles
HeaderRead ==
    /\ hdr.step = "written"
    /\ LET header == HeaderAt(hdr.bytes)
       IN  hdr' = [step |-> "read", k |-> hdr.k, r |-> hdr.r, size |-> hdr.size,
                   bytes |-> hdr.bytes, header |-> header,
                   valid |-> ValidateStream(header),
                   uncompressedSize |-> GetUncompressedSize(header)]
    /\ UNCHANGED <<mainVars, big, sampleVars>>

NextHeader == HeaderWrite \/ HeaderRead

SpecHeader == InitHeader /\ [][NextHeader]_vars

\* ------------------------------------------------------------------------
\* Properties
\* ------------------------------------------------------------------------
\* ceil(n / TILE_SIZE) for the input of the run
NumTiles == (ToNat(in.size) + kDefaultTileSize - 1) \div kDefaultTileSize

CompressReturnedTrue == pc \in {"C_Done", "D_Spawn", "D_Job", "D_Done"} /\ cResult = TRUE
DecompressReturnedTrue == pc = "D_Done" /\ dResult = TRUE

AllWorkersExited == \A k \in 1..Len(workers) : workers[k].pc = "done"

\* the tiles a single thread taking them in order produces
SequentialTiles(input, lvl) ==
    [i \in 1..ToNat(NumItemsOf(input.size)) |-> CompressedTile(input, lvl, U32(i - 1))]

\* C2: the stream and the size Compress returns are those of the tiles taken
\* in order by one thread: a function of the input, the level and the buffer
\* size alone, whatever the flags, the number of threads and their interleaving.
C2_Deterministic ==
    CompressReturnedTrue =>
        LET os == Serialize(SequentialTiles(in, level), in.size, capacity)
        IN  stream = os.ptr /\ streamSize = os.pos

C2_Witness ==
    /\ pc = "C_Done" /\ CompressReturnedTrue
    /\ Len(workers) >= 1
    /\ NumTiles = MaxTiles
    /\ in.pattern = "zero-rand"

\* C3: in Compress and in Decompress no tile index is handed to the codec
\* twice, none is >= numTiles, and on return every index of 0..numTiles-1 was.
C3_ExactlyOnce ==
    /\ \A i \in BagToSet(cCalls) : i < NumTiles /\ CopiesIn(i, cCalls) = 1
    /\ \A i \in BagToSet(dCalls) : i < NumTiles /\ CopiesIn(i, dCalls) = 1
    /\ CompressReturnedTrue => BagToSet(cCalls) = 0..NumTiles - 1
    /\ DecompressReturnedTrue => BagToSet(dCalls) = 0..NumTiles - 1

C3_Witness ==
    /\ DecompressReturnedTrue
    /\ Len(workers) >= 1
    /\ NumTiles = MaxTiles

\* C4: when Compress or Decompress has returned true every thread it started
\* has exited, and the tiles Compress built the stream from were all stored.
C4_ReturnAfterWorkers ==
    /\ pc = "C_Done" /\ CompressReturnedTrue =>
          /\ AllWorkersExited
          /\ caller.pc = "done"
          /\ \A i \in 1..Len(context.tiles) : context.tiles[i] # EmptyTile
          /\ Len(context.tiles) = NumTiles
    /\ DecompressReturnedTrue => AllWorkersExited /\ caller.pc = "done"

C4_Witness ==
    /\ pc = "C_Done" /\ CompressReturnedTrue
    /\ Len(workers) >= 1
    /\ NumTiles >= 2

\* C5: the size Compress reports never exceeds CompressBound(n), which is
\* numTiles * (TILE_SIZE + 4 + 4*208 + 4*8) + 8 + 8 with numTiles clamped to
\* 1..MAX_TILES.
C5_OutputWithinBound ==
    /\ ToNat(CompressBound(in.size)) =
          MaxNat(1, MinNat(kMaxTiles, NumTiles)) * (kDefaultTileSize + 4 + 4 * 208 + 4 * 8)
          + 8 + 8
    /\ CompressReturnedTrue => Leq(streamSize, CompressBound(in.size))

C5_Witness ==
    /\ pc = "C_Done" /\ CompressReturnedTrue
    /\ capacity # CompressBound(in.size)
    /\ in.pattern = "rand" /\ level = MinimumCompressionLevel
    /\ NumTiles = MaxTiles

\* C6: the stream Compress writes starts with the bytes 4 and 0xFB, the low two
\* bits of byte 4 are 1, and Decompress's magic and codec checks accept it.
C6_HeaderIdentifiesCodec ==
    /\ CompressReturnedTrue =>
          LET b == ReadBytes(stream, 0, SizeofTileStream)
          IN  /\ b[1] = 4 /\ b[2] = 251 /\ b[5] % 4 = 1
              /\ b[1] = 255 - b[2]
              /\ ValidateStream(HeaderAt(b))
    /\ pc = "D_Done" /\ CompressReturnedTrue => dResult = TRUE

C6_Witness == pc = "D_Spawn" /\ ByteAt(stream, 1) = 251

\* C7: for an input of n bytes, n in 1..MAX_TILES*TILE_SIZE, the header holds
\* numTiles = ceil(n / TILE_SIZE) and lastTileSize = n mod TILE_SIZE, and
\* GetUncompressedSize() gives n back.
C7_HeaderGeometry ==
    hdr.step = "read" =>
        /\ hdr.header.numTiles = hdr.k + (IF hdr.r = 0 THEN 0 ELSE 1)
        /\ hdr.header.lastTileSize = hdr.r
        /\ hdr.uncompressedSize = hdr.size

C7_Witness == hdr.step = "read" /\ hdr.k = kMaxTiles - 1 /\ hdr.r = kDefaultTileSize - 1

\* C8: bytes 4..7 of the header are the little-endian word 1 + 4 * lastTileSize,
\* the 12 reserved bits zero; a 65537-byte input gives 04 FB 02 00 05 00 00 00.
C8_BitfieldWord ==
    hdr.step \in {"written", "read"} =>
        /\ hdr.bytes[5] + 256 * hdr.bytes[6] + 65536 * (hdr.bytes[7] % 16) = 1 + 4 * hdr.r
        /\ hdr.bytes[7] \div 16 = 0
        /\ hdr.bytes[8] = 0
        /\ hdr.k = 1 /\ hdr.r = 1 => hdr.bytes = <<4, 251, 2, 0, 5, 0, 0, 0>>

C8_Witness == hdr.step = "written" /\ hdr.k = 1 /\ hdr.r = 1

\* the record the state keeps of tile t
BigTile(t) == CHOOSE r \in big.win : r.tile = t
BigHas(t) == \E r \in big.win : r.tile = t

\* the index entries the reader needs for tile t are written
BigSpanKnown(t) ==
    /\ BigHas(t)
    /\ IF t = big.numItems - 1 THEN big.step = "decompress" ELSE BigHas(t + 1)

\* C9: the index has numTiles entries; entry i, i >= 1, is the sum of the
\* compressed sizes of tiles 0..i-1, so the entries do not decrease; entry 0
\* is the compressed size of the last tile.
C9_TileIndex ==
    big.step \in {"compress", "decompress"} =>
        /\ big.dataOffset = SizeT(SizeofTileStream + SizeofU32 * big.numItems)
        /\ \A r \in big.win : r.tile >= 1 => Ext(r.entry, SizeofU64) = r.sum
        /\ \A r1, r2 \in big.win :
              1 <= r1.tile /\ r1.tile <= r2.tile => Leq(r1.entry, r2.entry)
        /\ big.step = "decompress" =>
              Ext(big.entry0, SizeofU64) = BigTile(big.numItems - 1).data.nbytes

\* C10: for every tile the offset and the length the reader derives from the
\* index are the payload position Compress wrote the tile at and the number
\* of bytes it wrote there.
C10_SpansAgree ==
    big.step \in {"compress", "decompress"} =>
        \A r \in big.win :
            BigSpanKnown(r.tile) =>
                /\ Add(big.dataOffset, BigReaderOffset(big, r.tile)) = r.at
                /\ BigReaderBytes(big, r.tile) = r.wrote
                /\ r.wrote = r.data.nbytes

\* C1: every tile Decompress decodes from the stream Compress wrote into a
\* buffer of CompressBound(|S|) bytes is the tile's slice of S, at its place.
C1_RoundTrip ==
    big.step = "decompress" =>
        \A d \in big.decoded :
            LET tilePos == Mul(SizeT(d.tile), kDefaultTileSize)
            IN  /\ d.sym = ChunkSym(big.in.pattern, d.tile)
                /\ d.pos = tilePos
                /\ SizeT(d.len) = Min(Sub(big.in.size, tilePos), SizeT(kDefaultTileSize))

\* ------------------------------------------------------------------------
\* Compress from its entry to the moment the caller starts its own job, for
\* any arguments: sizes over the whole range of size_t, null pointers, flags
\* and numbers of hardware threads.
\* ------------------------------------------------------------------------
\* k whole tiles and r bytes
EntrySizes ==
    {HeaderSize(k, r) :
        k \in {0, 63, 64, 128, 31 * 64, kMaxTiles - 1, kMaxTiles, kMaxTiles + 1,
               2 * (kMaxTiles + 1)},
        r \in {0, 1}}
    \cup {Sub(SizeT(0), SizeT(1))}

EntryFlags == {0, 1, COMPRESS_SINGLE_THREAD, COMPRESS_SINGLE_THREAD + 1}
EntryHwThreads == {0, 1, 2, kMaxWorkers - 1, kMaxWorkers, kMaxWorkers + 1, 2 * kMaxWorkers}

InitEntry ==
    /\ args = NoArgs
    /\ big = NoBig
    /\ hdr = NoHdr
    /\ SamplesIdle
    /\ in \in [size : EntrySizes, pattern : {"zero"}]
    /\ level = MinimumCompressionLevel
    /\ capacity = CompressBound(in.size)
    /\ pc = "Start"
    /\ numWorkersLeft = 0
    /\ context = NoContext
    /\ workers = <<>>
    /\ joined = 0
    /\ caller = Idle
    /\ stream = {}
    /\ streamSize = capacity
    /\ cResult = FALSE
    /\ output = {}
    /\ dResult = FALSE
    /\ cCalls = EmptyBag
    /\ dCalls = EmptyBag

NextEntry ==
    \/ \E flags \in EntryFlags, hc \in EntryHwThreads, null \in CompressNulls :
          CompressEntry(flags, hc, null)
    \/ CompressSpawn
    \/ CompressCallerJob

SpecEntry == InitEntry /\ [][NextEntry]_vars

\* the largest input Compress is to accept
MaxInput == Mul(SizeT(kMaxTiles), kDefaultTileSize)

SingleThread == (args.flags \div 512) % 2 = 1

\* Compress has returned false and has done nothing
RejectedUntouched ==
    /\ pc = "C_Done" /\ cResult = FALSE
    /\ workers = <<>> /\ caller = Idle
    /\ context = NoContext
    /\ cCalls = EmptyBag
    /\ stream = {} /\ streamSize = capacity

\* C17: an input of exactly MAX_TILES * TILE_SIZE bytes passes the argument
\* checks; every larger input makes Compress return false with no tile
\* compressed.
C17_SizeLimit ==
    pc # "Start" /\ args.null = "none" =>
        /\ in.size = MaxInput =>
              pc \in {"C_Spawn", "C_Job"} /\ Len(context.tiles) = kMaxTiles
        /\ Less(MaxInput, in.size) => RejectedUntouched

C17_Witness ==
    /\ pc = "C_Done" /\ cResult = FALSE
    /\ args.null = "none"
    /\ in.size = Add(MaxInput, SizeT(1))

\* C18: with an input length of 0, or with output, outputSize or in null,
\* Compress returns false, starts no thread, writes nothing to the output
\* buffer and leaves *outputSize as it was.
C18_BadArguments ==
    pc # "Start" /\ (args.null # "none" \/ in.size = SizeT(0)) => RejectedUntouched

C18_Witness ==
    /\ pc = "C_Done" /\ cResult = FALSE
    /\ args.null = "none" /\ in.size = SizeT(0)

\* C19: with COMPRESS_SINGLE_THREAD set Compress starts no thread, and every
\* tile is compressed by the one thread there is, the caller.
C19_SingleThread ==
    pc \in {"C_Spawn", "C_Job", "C_Done"} /\ SingleThread =>
        /\ workers = <<>>
        /\ numWorkersLeft = 0
        /\ CompressReturnedTrue =>
              /\ BagToSet(cCalls) = 0..NumTiles - 1
              /\ caller.pc = "done"

C19_Witness ==
    /\ pc = "C_Done" /\ CompressReturnedTrue
    /\ SingleThread
    /\ NumTiles = MaxTiles

\* C20: without COMPRESS_SINGLE_THREAD the threads Compress starts number
\* min(hardwareConcurrency, 31, ceil(numTiles / 64)), and the caller then runs
\* the same job.
C20_WorkerCount ==
    pc = "C_Job" /\ ~SingleThread =>
        /\ Len(workers) =
              MinNat(args.hardwareConcurrency,
                     MinNat(31, (Len(context.tiles) + 63) \div 64))
        /\ \A k \in 1..Len(workers) : workers[k] = AtFetch
        /\ caller = AtFetch

C20_Witness ==
    /\ pc = "C_Job" /\ ~SingleThread
    /\ Len(workers) = kMaxWorkers
    /\ args.hardwareConcurrency > kMaxWorkers

\* C11: a successful Compress has the header at offset 0, the index behind it
\* up to 8 + 4 * numTiles, every tile's payload right behind the payloads of
\* the tiles before it, and reports 8 + 4 * numTiles + the sum of the sizes.
C11_Layout ==
    big.step \in {"compress", "decompress"} =>
        /\ \E e \in big.os.ptr : e.pos = SizeT(0) /\ e.len = SizeT(8)
        /\ big.dataOffset = SizeT(8 + 4 * big.numItems)
        /\ \A r \in big.win :
              /\ r.at = Add(big.dataOffset, r.sum)
              /\ r.wrote = r.data.nbytes
        /\ big.step = "decompress" => big.streamSize = Add(big.dataOffset, big.dataPos)

\* ------------------------------------------------------------------------
\* Compress with an output buffer smaller than CompressBound(n)
\* ------------------------------------------------------------------------
SmallRoom == 64    \* bytes of the buffer behind the header and the index

\* room for nothing, for the header, for header and index, for SmallRoom
\* bytes of payload, for one tile's worth of bytes
SmallCapacities(size) ==
    LET index == SizeofU32 * ToNat(NumItemsOf(size))
    IN  {SizeT(0), SizeT(SizeofTileStream), SizeT(SizeofTileStream + index),
         SizeT(SizeofTileStream + index + SmallRoom), SizeT(kDefaultTileSize)}

InitSmall ==
    /\ args = NoArgs
    /\ big = NoBig
    /\ hdr = NoHdr
    /\ SamplesIdle
    /\ in \in BigSmallInputs
    /\ level \in Levels
    /\ capacity \in SmallCapacities(in.size)
    /\ pc = "Start"
    /\ numWorkersLeft = 0
    /\ context = NoContext
    /\ workers = <<>>
    /\ joined = 0
    /\ caller = Idle
    /\ stream = {}
    /\ streamSize = capacity
    /\ cResult = FALSE
    /\ output = {}
    /\ dResult = FALSE
    /\ cCalls = EmptyBag
    /\ dCalls = EmptyBag

NextSmall ==
    \/ \E flags \in FlagsValues, hc \in 0..MaxHwThreads : CompressCall(flags, hc)
    \/ CompressSpawn
    \/ CompressCallerJob
    \/ \E t \in ThreadIds : CompressFetch(t)
    \/ \E t \in ThreadIds : CompressTile(t)
    \/ CompressJoin
    \/ CompressAssemble

SpecSmall == InitSmall /\ [][NextSmall]_vars

\* the number of bytes of the stream of the input at the level
StreamNeeded ==
    Serialize(SequentialTiles(in, level), in.size, CompressBound(in.size)).pos

\* C12: when the stream does not fit the capacity passed in *outputSize,
\* Compress returns false.
C12_OutputTooSmall ==
    pc = "C_Done" /\ Less(capacity, StreamNeeded) => cResult = FALSE

\* ------------------------------------------------------------------------
\* Decompress on streams that are not what Compress wrote
\* ------------------------------------------------------------------------
\* the tile counts of the streams
FaultTiles == {1, 2, MaxTiles}

FaultInputs ==
    [size : {SizeT((k - 1) * kDefaultTileSize + 1) : k \in FaultTiles},
     pattern : {"rand", "zero-rand"}]

\* what the caller may have done to the bytes at in, or to inSize
Tampers ==
    {"magic", "id", "tileSizeIdx0", "tileSizeIdx2", "tileSizeIdx3",
     "payload", "index", "cutPayload", "cutIndex"}

\* the bytes at in and inSize after the change: the magic byte cleared, the
\* pair (id, magic) set to 05 FA, tileSizeIdx set to a value other than 1, the
\* page of tile 0 replaced by as many bytes that are no page, tileOffsets[0]
\* set to 0xFFFFFFFF, inSize one byte short of the payload, or of the index
Tampered(kind, buf, size) ==
    LET h         == HeaderAt(ReadBytes(buf, 0, SizeofTileStream))
        index     == ReadBytes(buf, SizeofTileStream, SizeofU32 * h.numTiles)
        header(x) == [ptr |-> Store(buf, SizeT(0), BytesBlock(HeaderBytes(x))),
                      size |-> size]
        idx(v)    == header([h EXCEPT !.tileSizeIdx = v])
    IN  CASE kind = "magic" -> header([h EXCEPT !.magic = 0])
          [] kind = "id" -> header([h EXCEPT !.id = kGDeflateId + 1,
                                             !.magic = Xor255(kGDeflateId + 1)])
          [] kind = "tileSizeIdx0" -> idx(0)
          [] kind = "tileSizeIdx2" -> idx(2)
          [] kind = "tileSizeIdx3" -> idx(3)
          [] kind = "payload" ->
                [ptr |-> {IF e.pos = InDataOffset(h.numTiles) /\ e.page # NoPage
                              THEN [e EXCEPT !.page = [CorruptPage EXCEPT !.nbytes = e.len]]
                              ELSE e : e \in buf},
                 size |-> size]
          [] kind = "index" ->
                [ptr |-> Store(buf, SizeT(SizeofTileStream),
                               BytesBlock(Sub(U32(0), U32(1))
                                          \o SubSeq(index, SizeofU32 + 1, Len(index)))),
                 size |-> size]
          [] kind = "cutPayload" -> [ptr |-> buf, size |-> Sub(size, SizeT(1))]
          [] kind = "cutIndex" ->
                [ptr |-> buf, size |-> Sub(InDataOffset(h.numTiles), SizeT(1))]

Tamper(kind) ==
    /\ pc = "C_Done"
    /\ cResult = TRUE
    /\ args.tamper = "none"
    /\ LET t == Tampered(kind, stream, streamSize)
       IN  /\ stream' = t.ptr
           /\ streamSize' = t.size
    /\ args' = [args EXCEPT !.tamper = kind]
    /\ UNCHANGED <<big, hdr, sampleVars, in, level, capacity, pc, numWorkersLeft, context, workers, joined,
                   caller, cResult, output, dResult, cCalls, dCalls>>

\* the state in which Compress(.., COMPRESS_SINGLE_THREAD) has returned true
InitFault ==
    /\ big = NoBig
    /\ hdr = NoHdr
    /\ SamplesIdle
    /\ in \in FaultInputs
    /\ level \in Levels
    /\ capacity = CompressBound(in.size)
    /\ args = [NoArgs EXCEPT !.flags = COMPRESS_SINGLE_THREAD]
    /\ pc = "C_Done"
    /\ numWorkersLeft = 0
    /\ context = [NoContext EXCEPT
            !.inputSize = in.size,
            !.numItems = NumItemsOf(in.size),
            !.tiles = SequentialTiles(in, level),
            !.globalIndex = Add(NumItemsOf(in.size), U32(1))]
    /\ workers = <<>>
    /\ joined = 0
    /\ caller = [pc |-> "done", tileIndex |-> NumItemsOf(in.size)]
    /\ LET os == Serialize(SequentialTiles(in, level), in.size, capacity)
       IN  /\ stream = os.ptr
           /\ streamSize = os.pos
    /\ cResult = TRUE
    /\ output = {}
    /\ dResult = FALSE
    /\ cCalls = SetToBag(0..ToNat(NumItemsOf(in.size)) - 1)
    /\ dCalls = EmptyBag

NextFault ==
    \/ \E kind \in Tampers : Tamper(kind)
    \/ \E numWorkers \in NumWorkersValues, bad \in DecompressBads :
          DecompressEntry(numWorkers, bad)
    \/ DecompressSpawn
    \/ DecompressCallerJob
    \/ \E t \in ThreadIds : DecompressFetch(t)
    \/ \E t \in ThreadIds : DecompressTile(t)
    \/ DecompressJoin
    \/ DecompressReturn

SpecFault == InitFault /\ [][NextFault]_vars

\* Decompress has been entered
DecompressEntered == pc \in {"D_Spawn", "D_Job", "D_Done", "D_Fault"}

\* the bytes TileDecompressionJob hands to the codec for tile i lie in the input
ReaderSpanInBounds(i) ==
    LET numItems   == ToNat(context.numItems)
        tileOffset == ReaderTileOffset(i, TileOffsetsAt(stream, i))
        nbytes     == ReaderTileBytes(i, numItems, tileOffset,
                                      TileOffsetsAt(stream, i + 1), TileOffsetsAt(stream, 0))
    IN  SpanInBounds(context.inputSize, numItems, tileOffset, nbytes)

\* C13: when the codec fails on a tile, Decompress returns false.
C13_TileFailure ==
    pc = "D_Done" /\ (\E e \in output : e.sym = "garbage") => dResult = FALSE

\* C14: Decompress returns false on a header whose tileSizeIdx is not 1.
C14_TileSizeIdx ==
    /\ DecompressEntered
    /\ args.bad = "none"
    /\ HeaderAt(ReadBytes(stream, 0, SizeofTileStream)).tileSizeIdx # 1
    => pc = "D_Done" /\ dResult = FALSE

\* C15: every range of compressed bytes handed to the codec lies inside the
\* inSize bytes at in, and Decompress returns true only on a stream all of
\* whose tile ranges do.
C15_SpansInBounds ==
    /\ \A i \in BagToSet(dCalls) : ReaderSpanInBounds(i)
    /\ DecompressReturnedTrue =>
          \A i \in 0..ToNat(context.numItems) - 1 : ReaderSpanInBounds(i)

\* C16: with a null output or in, a zero outputSize or inSize, a wrong magic
\* byte, or a valid magic byte and an id other than 4, Decompress returns
\* false, starts no worker and writes nothing to the output.
C16_Rejected ==
    DecompressEntered /\ (args.bad # "none" \/ args.tamper \in {"magic", "id"}) =>
        /\ pc = "D_Done" /\ dResult = FALSE
        /\ workers = <<>> /\ caller = Idle
        /\ output = {} /\ dCalls = EmptyBag

C16_Witness ==
    /\ pc = "D_Done" /\ dResult = FALSE
    /\ args.bad = "none" /\ args.tamper = "id"
    /\ ReadBytes(stream, 0, 2) = <<5, 250>>

\* ------------------------------------------------------------------------
\* Decompress up to the end of its loop that starts the threads, for any
\* tile count and any numWorkers
\* ------------------------------------------------------------------------
\* numTiles of the header at in
WorkersTiles ==
    {1, 2, 3, 4, 5, 6, 7, 2 * kMaxWorkers - 2, 2 * kMaxWorkers - 1, 2 * kMaxWorkers,
     2 * kMaxWorkers + 1, kMinTilesPerWorker, kMinTilesPerWorker + 1,
     2 * kMinTilesPerWorker + 1, kMaxWorkers * kMinTilesPerWorker, kMaxTiles}

\* uint32_t numWorkers
WorkersRequested ==
    {0, 1, 2, 3, 4, kMaxWorkers - 1, kMaxWorkers, kMaxWorkers + 1, 2 * kMaxWorkers}

\* Compress has returned true: the buffer begins with the header of the stream
\* of in.size bytes, the only bytes these steps read
InitWorkers ==
    /\ args = NoArgs
    /\ big = NoBig
    /\ hdr = NoHdr
    /\ SamplesIdle
    /\ in \in [size : {HeaderSize(k - 1, 1) : k \in WorkersTiles}, pattern : {"zero"}]
    /\ level = MinimumCompressionLevel
    /\ capacity = CompressBound(in.size)
    /\ pc = "C_Done"
    /\ numWorkersLeft = 0
    /\ context = NoContext
    /\ workers = <<>>
    /\ joined = 0
    /\ caller = Idle
    /\ stream = StreamOut(OutputStreamWrapper({}, capacity),
                          BytesBlock(HeaderBytes(TileStream(in.size)))).ptr
    /\ streamSize = capacity
    /\ cResult = TRUE
    /\ output = {}
    /\ dResult = FALSE
    /\ cCalls = EmptyBag
    /\ dCalls = EmptyBag

NextWorkers ==
    \/ \E numWorkers \in WorkersRequested, bad \in DecompressBads :
          DecompressEntry(numWorkers, bad)
    \/ DecompressSpawn
    \/ DecompressCallerJob

SpecWorkers == InitWorkers /\ [][NextWorkers]_vars

\* w' = min(MAX_WORKERS, max(1, w)) of the numWorkers passed
ClampedRequest == MinNat(kMaxWorkers, MaxNat(1, args.numWorkers))

\* the stream is not small for the request
ManyTiles == ToNat(context.numItems) > 2 * ClampedRequest

\* the threads Decompress has started once its loop has ended
AllStarted == pc = "D_Job" /\ args.bad = "none"

C22_ClampedWorkers ==
    DecompressEntered =>
        /\ Len(workers) + 1 <= ClampedRequest
        /\ AllStarted /\ ~ManyTiles => workers = <<>> /\ caller = AtFetch

C22_Witness ==
    /\ AllStarted
    /\ args.numWorkers = 2 * kMaxWorkers
    /\ Len(workers) = kMaxWorkers - 1
    /\ caller = AtFetch

\* the threads whose call of the job is under way: each holds the compressor
\* or decompressor its call allocated, a local of that call
Holders == {t \in 0..Len(workers) : ThreadAt(t).pc \in {"fetch", "tile"}}

AnyLevels ==
    {MinimumCompressionLevel - 1, MinimumCompressionLevel,
     MaximumCompressionLevel, MaximumCompressionLevel + 1}

InitLevel ==
    /\ args = NoArgs
    /\ big = NoBig
    /\ hdr = NoHdr
    /\ SamplesIdle
    /\ in \in BigSmallInputs
    /\ level \in AnyLevels
    /\ capacity = CompressBound(in.size)
    /\ pc = "Start"
    /\ numWorkersLeft = 0
    /\ context = NoContext
    /\ workers = <<>>
    /\ joined = 0
    /\ caller = Idle
    /\ stream = {}
    /\ streamSize = capacity
    /\ cResult = FALSE
    /\ output = {}
    /\ dResult = FALSE
    /\ cCalls = EmptyBag
    /\ dCalls = EmptyBag

SpecLevel == InitLevel /\ [][NextSmall]_vars

\* C24: when no compressor can be allocated for the level, Compress returns
\* false: it neither returns true nor ends in a fault.
C24_AllocFailure ==
    /\ pc \in {"C_Done", "C_Fault"}
    /\ ~CompressorAllocated(level)
    => pc = "C_Done" /\ cResult = FALSE

\* C25: Decompress decodes tile i into the output bytes from i * TILE_SIZE,
\* TILE_SIZE at most, and each tile once, so that no two writes touch the same
\* byte; the output it returns is that of the tiles decoded in order by one
\* thread, whatever the threads and their interleaving.
C25_DisjointOutput ==
    /\ \A e \in output :
          \E i \in BagToSet(dCalls) :
              /\ i < NumTiles
              /\ ToNat(e.pos) = i * kDefaultTileSize
              /\ e.len <= kDefaultTileSize
    /\ \A i \in BagToSet(dCalls) : CopiesIn(i, dCalls) = 1
    /\ \A e1, e2 \in output :
          e1 # e2 => \/ ToNat(e1.pos) + e1.len <= ToNat(e2.pos)
                     \/ ToNat(e2.pos) + e2.len <= ToNat(e1.pos)
    /\ DecompressReturnedTrue =>
          output = {DecompressedTile(stream, i, NumTiles) : i \in 0..NumTiles - 1}

C25_Witness ==
    /\ DecompressReturnedTrue
    /\ Len(workers) >= 1
    /\ Cardinality(output) = NumTiles
    /\ NumTiles >= 2 * Len(workers) + 1

\* the bytes of the input that tile i covers: from i * TILE_SIZE, and
\* min(TILE_SIZE, inSize - i * TILE_SIZE) of them
SliceLen(i) == MinNat(kDefaultTileSize, ToNat(in.size) - i * kDefaultTileSize)

RECURSIVE SliceSum(_)
SliceSum(n) == IF n = 0 THEN 0 ELSE SliceSum(n - 1) + SliceLen(n - 1)

\* C26: Compress compresses tile i in one call of the codec, from the
\* SliceLen(i) bytes of the input at i * TILE_SIZE, and records that length;
\* the slices are not empty, follow one another and add up to the input.
C26_TileSlices ==
    /\ \A i \in BagToSet(cCalls) : CopiesIn(i, cCalls) = 1
    /\ pc = "C_Done" /\ CompressReturnedTrue =>
          /\ Len(context.tiles) = NumTiles
          /\ \A i \in 0..NumTiles - 1 :
                /\ SliceLen(i) >= 1
                /\ context.tiles[i + 1].uncompressedSize = SizeT(SliceLen(i))
                /\ context.tiles[i + 1].data =
                      GDeflateCompressPage(
                          [sym |-> ChunkSym(in.pattern, i), len |-> SliceLen(i)], level)
                /\ i > 0 => SliceSum(i) = i * kDefaultTileSize
          /\ SliceSum(NumTiles) = ToNat(in.size)

C26_Witness ==
    /\ pc = "C_Done" /\ CompressReturnedTrue
    /\ NumTiles >= 2
    /\ SliceLen(NumTiles - 1) < kDefaultTileSize
    /\ Len(workers) >= 1

\* C29: every byte Compress stores lies below the capacity passed in
\* *outputSize, and the *outputSize it returns is at most that capacity,
\* whatever the capacity.
C29_WritesWithinCapacity ==
    pc = "C_Done" /\ CompressReturnedTrue =>
        /\ \A e \in stream :
              /\ Leq(e.pos, Add(e.pos, e.len))
              /\ Leq(Add(e.pos, e.len), capacity)
        /\ Leq(streamSize, capacity)

C29_Witness ==
    /\ pc = "C_Done" /\ CompressReturnedTrue
    /\ Less(capacity, StreamNeeded)
    /\ stream # {}
    /\ Less(SizeT(SizeofTileStream), streamSize)

\* C28: the window Decompress hands the codec for a tile, kDefaultTileSize
\* bytes from outputPtr + tileIndex * kDefaultTileSize, lies inside the output
\* buffer, which holds in.size bytes here.
C28_WindowInOutput ==
    \A e \in output : Leq(Add(e.pos, SizeT(kDefaultTileSize)), in.size)

\* ------------------------------------------------------------------------
\* Compress then Decompress under a scheduler that lets some thread that can
\* take a step take one
\* ------------------------------------------------------------------------
InitLive ==
    /\ Init
    /\ in.pattern \in {"zero-rand", "rand"}
    /\ level = MinimumCompressionLevel
    /\ capacity = CompressBound(in.size)

SpecLive == InitLive /\ [][Next]_vars /\ WF_vars(Next)

\* C27: a call whose arguments were accepted returns, and on the way every
\* thread leaves the loop at the first index it fetches that is not below
\* numTiles, the counter staying at most numTiles plus the threads in the job.
C27_Terminates ==
    /\ (pc = "C_Spawn") ~> (pc = "C_Done")
    /\ (pc = "D_Spawn") ~> (pc = "D_Done")
    /\ [](/\ ToNat(context.globalIndex) <= NumTiles + Len(workers) + 1
          /\ \A t \in 0..Len(workers) :
                /\ ThreadAt(t).pc = "tile" => ToNat(ThreadAt(t).tileIndex) < NumTiles
                /\ ThreadAt(t).pc = "done" => ToNat(ThreadAt(t).tileIndex) >= NumTiles)

C27_Witness ==
    /\ DecompressReturnedTrue
    /\ Len(workers) >= 1
    /\ joined = Len(workers)
    /\ ToNat(context.globalIndex) = NumTiles + Len(workers) + 1

\* ------------------------------------------------------------------------
\* BulkLoadDemo, MarcFile.cpp: the content load of one MarcFile.  Every
\* function below runs under m_mutex, so each is one step.  An EventWait is
\* "idle" (no wait set), "waiting" (SetThreadpoolWait called, event reset) or
\* "set" (the queue signalled the event, the callback is due).
\* ------------------------------------------------------------------------
MaxLoads == 3          \* content loads of the one MarcFile

HResults == {"S_OK", "E_FAIL"}

FAILED(hr) == hr # "S_OK"

\* IsOk that never reports the error
IsOkAlways(file) == TRUE

\* bool MarcFile::IsOk() const
IsOk(file) == file.m_state # "Error"

\* void MarcFile::CheckHR(HRESULT hr)
CheckHR(file, hr) ==
    IF FAILED(hr) THEN [file EXCEPT !.m_state = "Error", !.m_status = hr] ELSE file

\* bool MarcFile::StateIsOneOf(States... states) const
StateIsOneOf(file, states) == file.m_state \in states

\* ValidateState threw std::runtime_error out of a threadpool callback
Terminated(file) == [file EXCEPT !.m_state = "Terminated"]

\* OnAllDataLoaded that returns at once
OnAllDataLoadedSkipped(file, load) == file

\* void MarcFile::OnAllDataLoaded(), m_model being the load that made the Model
OnAllDataLoaded(file, load) ==
    Bind(CheckHR(file, file.m_statusArray.CpuData), LAMBDA cpuChecked :
        IF ~IsOk(cpuChecked) THEN cpuChecked
        ELSE Bind(CheckHR(cpuChecked, cpuChecked.m_statusArray.GpuData), LAMBDA gpuChecked :
                IF ~IsOk(gpuChecked) THEN gpuChecked
                ELSE [gpuChecked EXCEPT !.m_state = "ContentLoaded", !.m_model = load]))

\* void MarcFile::StartContentLoad(...): LoadCpuData and LoadGpuData enqueue
\* the requests and set the two waits
AfterStartContentLoad(file) ==
    IF ~StateIsOneOf(file, {"MetadataReady"}) THEN Terminated(file)
    ELSE [file EXCEPT !.m_state = "LoadingContent",
                      !.m_cpuDataLoaded = "waiting",
                      !.m_gpuDataLoaded = "waiting"]

\* a call of StartContentLoad in the state TryStartLoad calls it in
StartContentLoad ==
    /\ marcLog.loads < MaxLoads
    /\ StateIsOneOf(marcFile, {"MetadataReady"})
    /\ marcFile' = AfterStartContentLoad(marcFile)
    /\ marcLog' = [NoMarcLog EXCEPT !.loads = marcLog.loads + 1]
    /\ UNCHANGED <<mainVars, big, hdr, besidesMarc>>

\* g_dsSystemMemoryQueue reaches EnqueueStatus(CpuData) and EnqueueSetEvent
CpuDataDone(hr) ==
    /\ marcFile.m_cpuDataLoaded = "waiting"
    /\ marcFile' = [marcFile EXCEPT !.m_statusArray.CpuData = hr, !.m_cpuDataLoaded = "set"]
    /\ UNCHANGED <<mainVars, big, hdr, marcLog, besidesMarc>>

\* g_dsGpuQueue reaches EnqueueStatus(GpuData) and EnqueueSetEvent
GpuDataDone(hr) ==
    /\ marcFile.m_gpuDataLoaded = "waiting"
    /\ marcFile' = [marcFile EXCEPT !.m_statusArray.GpuData = hr, !.m_gpuDataLoaded = "set"]
    /\ UNCHANGED <<mainVars, big, hdr, marcLog, besidesMarc>>

\* void MarcFile::OnCpuDataLoaded(); weights: some AnimationCurves[i].targetPath
\* is kWeights. The file and the log of its load as the callback leaves them.
AfterOnCpuDataLoaded(before, history, weights) ==
    LET file == [before EXCEPT !.m_cpuDataLoaded = "idle"]
        log  == [history EXCEPT !.ran = Append(@, "cpu")]
    IN  IF ~IsOk(file)
        THEN [file |-> file, log |-> log]
        ELSE IF ~StateIsOneOf(file, {"LoadingContent", "GpuDataLoaded"})
        THEN [file |-> Terminated(file), log |-> log]
        ELSE IF weights
        THEN [file |-> [file EXCEPT !.m_status = "E_NOTIMPL", !.m_state = "Error"],
              log |-> [log EXCEPT !.weights = TRUE]]
        ELSE IF file.m_state = "GpuDataLoaded"
        THEN [file |-> OnAllDataLoaded(file, history.loads), log |-> [log EXCEPT !.all = @ + 1]]
        ELSE [file |-> [file EXCEPT !.m_state = "CpuDataLoaded"], log |-> log]

\* the threadpool runs OnCpuDataLoaded: m_cpuDataLoaded was set
OnCpuDataLoaded(weights) ==
    /\ marcFile.m_cpuDataLoaded = "set"
    /\ LET after == AfterOnCpuDataLoaded(marcFile, marcLog, weights)
       IN  marcFile' = after.file /\ marcLog' = after.log
    /\ UNCHANGED <<mainVars, big, hdr, besidesMarc>>

\* void MarcFile::OnGpuDataLoaded(): the file and the log of its load as the
\* callback leaves them
AfterOnGpuDataLoaded(before, history) ==
    LET file == [before EXCEPT !.m_gpuDataLoaded = "idle"]
        log  == [history EXCEPT !.ran = Append(@, "gpu")]
    IN  IF ~IsOk(file)
        THEN [file |-> file, log |-> log]
        ELSE IF ~StateIsOneOf(file, {"LoadingContent", "CpuDataLoaded"})
        THEN [file |-> Terminated(file), log |-> log]
        ELSE IF file.m_state = "CpuDataLoaded"
        THEN [file |-> OnAllDataLoaded(file, history.loads), log |-> [log EXCEPT !.all = @ + 1]]
        ELSE [file |-> [file EXCEPT !.m_state = "GpuDataLoaded"], log |-> log]

\* the threadpool runs OnGpuDataLoaded: m_gpuDataLoaded was set
OnGpuDataLoaded ==
    /\ marcFile.m_gpuDataLoaded = "set"
    /\ LET after == AfterOnGpuDataLoaded(marcFile, marcLog)
       IN  marcFile' = after.file /\ marcLog' = after.log
    /\ UNCHANGED <<mainVars, big, hdr, besidesMarc>>

\* void MarcFile::UnloadContent()
AfterUnloadContent(file) ==
    IF ~IsOk(file) THEN file
    ELSE IF ~StateIsOneOf(file, {"MetadataReady", "ContentLoaded"}) THEN Terminated(file)
    ELSE [file EXCEPT !.m_state = "MetadataReady"]

\* MarcFile::State MarcFile::GetState() const, for the states a file has once
\* its metadata is loaded
GetState(file) ==
    CASE file.m_state \in {"FileOpen", "LoadingHeader", "LoadingCpuMetadata"} -> "Initializing"
      [] file.m_state = "MetadataReady" -> "ReadyToLoadContent"
      [] file.m_state \in {"LoadingContent", "CpuDataLoaded", "GpuDataLoaded"} -> "ContentLoading"
      [] file.m_state = "ContentLoaded" -> "ContentLoaded"
      [] OTHER -> "Error"

\* a call of UnloadContent where UnloadSet calls it: not during a load
UnloadContent ==
    /\ GetState(marcFile) # "ContentLoading"
    /\ marcFile' = AfterUnloadContent(marcFile)
    /\ UNCHANGED <<mainVars, big, hdr, marcLog, besidesMarc>>

InitMarc ==
    /\ Init
    /\ in = [size |-> SizeT(0), pattern |-> "zero"]
    /\ level = MinimumCompressionLevel
    /\ capacity = CompressBound(in.size)

NextMarc ==
    \/ StartContentLoad
    \/ \E hr \in HResults : CpuDataDone(hr)
    \/ \E hr \in HResults : GpuDataDone(hr)
    \/ \E weights \in BOOLEAN : OnCpuDataLoaded(weights)
    \/ OnGpuDataLoaded
    \/ UnloadContent

SpecMarc == InitMarc /\ [][NextMarc]_vars

Ran(callback) == \E i \in 1..Len(marcLog.ran) : marcLog.ran[i] = callback
BothRan == Ran("cpu") /\ Ran("gpu")
LoadStarted == marcLog.loads >= 1
LoadedNow == marcFile.m_model = marcLog.loads
NoLoadError ==
    /\ ~marcLog.weights
    /\ ~FAILED(marcFile.m_statusArray.CpuData)
    /\ ~FAILED(marcFile.m_statusArray.GpuData)

\* C30 as stated: in a load that was started the state is ContentLoaded, and
\* the Model of this load exists, only once both callbacks ran; once both ran
\* OnAllDataLoaded was called exactly once; and with no error the load reached
\* ContentLoaded.
C30_ExactlyOnce ==
    LoadStarted =>
        /\ (marcFile.m_state = "ContentLoaded" \/ LoadedNow) => BothRan
        /\ BothRan => marcLog.all = 1
        /\ BothRan /\ NoLoadError => LoadedNow

\* C30, amended: OnAllDataLoaded is called by the second callback only, at most
\* once in a load, and exactly once unless OnCpuDataLoaded met an unsupported
\* animation curve (then the state is Error and it is not called at all).
C30_AtMostOnce ==
    LoadStarted =>
        /\ (marcFile.m_state = "ContentLoaded" \/ LoadedNow) => BothRan
        /\ marcLog.all <= 1
        /\ marcLog.all = 1 => BothRan
        /\ BothRan => (marcLog.all = 1 <=> ~marcLog.weights)
        /\ BothRan /\ NoLoadError => LoadedNow
        /\ marcFile.m_state # "Terminated"
        /\ Len(marcLog.ran) <= 2

C30_Witness ==
    /\ marcLog.loads = MaxLoads
    /\ marcLog.ran = <<"gpu", "cpu">>
    /\ marcLog.all = 1
    /\ marcFile.m_state = "ContentLoaded"
    /\ marcFile.m_model = MaxLoads


\* C39: once the file's internal state is Error, no completion callback and no
\* call of UnloadContent changes it, and GetState reports State::Error (GetState
\* and GetRequiredDataSize are const and change nothing).
C39_ErrorIsAbsorbing ==
    [][marcFile.m_state = "Error"
          => marcFile'.m_state = "Error" /\ GetState(marcFile') = "Error"]_vars

C39_Witness ==
    /\ marcFile.m_state = "Error"
    /\ marcFile.m_status = "E_NOTIMPL"
    /\ marcLog.ran = <<"cpu", "gpu">>
    /\ marcFile.m_gpuDataLoaded = "idle"

\* ------------------------------------------------------------------------
\* GpuDecompressionBenchmark: CustomDecompression (CustomDecompression.h)
\* ------------------------------------------------------------------------
MaxThreads == 2        \* numThreads of the constructor
MaxRequests == 2       \* requests DirectStorage hands to the callback

\* DSTORAGE_CUSTOM_DECOMPRESSION_REQUEST requests[10]
RequestsPerCall == 10

\* a std::thread of m_threads that has not run yet
ThreadAtTop == [pc |-> "top", request |-> 0]

\* m_cv.notify_all(): every thread blocked in m_cv.wait is woken
NotifyAll(threads) ==
    [t \in 1..Len(threads) |->
        IF threads[t].pc = "waiting" THEN [threads[t] EXCEPT !.pc = "woken"] ELSE threads[t]]

\* m_queue->SetRequestResults(1, &result) for one request
SetRequestResults(results, request) == [results EXCEPT ![request] = @ + 1]

RECURSIVE SetAllRequestResults(_, _)
\* the loop of the callback when there are no threads
SetAllRequestResults(results, requests) ==
    IF requests = <<>> THEN results
    ELSE SetAllRequestResults(SetRequestResults(results, Head(requests)), Tail(requests))

\* CustomDecompression(IDStorageFactory* factory, int numThreads)
CustomDecompression(numThreads) ==
    /\ custom.built = "no"
    /\ custom' = [custom EXCEPT !.built = "alive", !.callback = "armed",
                                !.m_threads = [t \in 1..numThreads |-> ThreadAtTop],
                                !.results = [r \in 1..MaxRequests |-> 0]]
    /\ UNCHANGED <<mainVars, big, hdr, besidesCustom>>

\* DirectStorage has one more request for the custom decompression queue and
\* sets the queue's event
RequestAvailable ==
    /\ custom.built = "alive"
    /\ custom.submitted < MaxRequests
    /\ custom' = [custom EXCEPT !.submitted = @ + 1, !.queue = Append(@, custom.submitted + 1)]
    /\ UNCHANGED <<mainVars, big, hdr, besidesCustom>>

\* the threadpool runs OnDecompressionRequestsReady: the wait was set and the
\* event is signalled
CallbackStart ==
    /\ custom.callback = "armed"
    /\ custom.queue # <<>>
    /\ custom' = [custom EXCEPT !.callback = "get"]
    /\ UNCHANGED <<mainVars, big, hdr, besidesCustom>>

\* OnDecompressionRequestsReady: GetRequests1, break and
\* SetWaitForDecompressionRequest when there are none
CallbackGetRequests ==
    /\ custom.callback = "get"
    /\ LET numRequests == MinNat(RequestsPerCall, Len(custom.queue))
       IN  IF numRequests = 0
           THEN custom' = [custom EXCEPT !.callback = "armed"]
           ELSE custom' = [custom EXCEPT
                    !.requests = SubSeq(custom.queue, 1, numRequests),
                    !.queue = SubSeq(custom.queue, numRequests + 1, Len(custom.queue)),
                    !.callback = IF custom.m_threads = <<>> THEN "decompress" ELSE "push"]
    /\ UNCHANGED <<mainVars, big, hdr, besidesCustom>>

\* OnDecompressionRequestsReady, m_threads.empty(): decompress on this thread
CallbackDecompress ==
    /\ custom.callback = "decompress"
    /\ custom' = [custom EXCEPT !.results = SetAllRequestResults(@, custom.requests),
                                !.requests = <<>>, !.callback = "get"]
    /\ UNCHANGED <<mainVars, big, hdr, besidesCustom>>

\* OnDecompressionRequestsReady: lock, push_back of every request, unlock
CallbackPush ==
    /\ custom.callback = "push"
    /\ ~custom.m_mutex
    /\ custom' = [custom EXCEPT !.m_requests = @ \o custom.requests,
                                !.requests = <<>>, !.callback = "notify"]
    /\ UNCHANGED <<mainVars, big, hdr, besidesCustom>>

\* OnDecompressionRequestsReady: self->m_cv.notify_all()
CallbackNotify ==
    /\ custom.callback = "notify"
    /\ custom' = [custom EXCEPT !.m_threads = NotifyAll(@), !.callback = "get"]
    /\ UNCHANGED <<mainVars, big, hdr, besidesCustom>>

\* Thread(): std::unique_lock lock(m_mutex) at the top of the outer loop
ThreadLock(t) ==
    /\ custom.m_threads[t].pc = "top"
    /\ ~custom.m_mutex
    /\ custom' = [custom EXCEPT !.m_mutex = TRUE, !.m_threads[t].pc = "locked"]
    /\ UNCHANGED <<mainVars, big, hdr, besidesCustom>>

\* Thread(): m_cv.wait(lock) releases the mutex and blocks
ThreadWait(t) ==
    /\ custom.m_threads[t].pc = "locked"
    /\ custom' = [custom EXCEPT !.m_mutex = FALSE, !.m_threads[t].pc = "waiting"]
    /\ UNCHANGED <<mainVars, big, hdr, besidesCustom>>

\* m_cv.wait(lock) may wake without a notification
ThreadSpuriousWake(t) ==
    /\ custom.m_threads[t].pc = "waiting"
    /\ custom' = [custom EXCEPT !.m_threads[t].pc = "woken"]
    /\ UNCHANGED <<mainVars, big, hdr, besidesCustom>>

\* m_cv.wait(lock) returns with the mutex held; if (m_quit) return
ThreadWake(t) ==
    /\ custom.m_threads[t].pc = "woken"
    /\ ~custom.m_mutex
    /\ IF custom.m_quit
       THEN custom' = [custom EXCEPT !.m_threads[t].pc = "returned"]
       ELSE custom' = [custom EXCEPT !.m_mutex = TRUE, !.m_threads[t].pc = "loop"]
    /\ UNCHANGED <<mainVars, big, hdr, besidesCustom>>

\* Thread(): while (!m_requests.empty()): front, pop_front, unlock; when it is
\* empty the lock goes out of scope and the outer loop starts again
ThreadPop(t) ==
    /\ custom.m_threads[t].pc = "loop"
    /\ IF custom.m_requests # <<>>
       THEN custom' = [custom EXCEPT !.m_mutex = FALSE, !.m_requests = Tail(@),
                                     !.m_threads[t] = [pc |-> "work", request |-> Head(custom.m_requests)]]
       ELSE custom' = [custom EXCEPT !.m_mutex = FALSE, !.m_threads[t].pc = "top"]
    /\ UNCHANGED <<mainVars, big, hdr, besidesCustom>>

\* Thread(): codec.Decompress(request); m_queue->SetRequestResults(1, &result)
ThreadDecompress(t) ==
    /\ custom.m_threads[t].pc = "work"
    /\ custom' = [custom EXCEPT !.results = SetRequestResults(@, custom.m_threads[t].request),
                                !.m_threads[t] = [pc |-> "relock", request |-> 0]]
    /\ UNCHANGED <<mainVars, big, hdr, besidesCustom>>

\* Thread(): lock.lock() at the end of the inner loop's body
ThreadRelock(t) ==
    /\ custom.m_threads[t].pc = "relock"
    /\ ~custom.m_mutex
    /\ custom' = [custom EXCEPT !.m_mutex = TRUE, !.m_threads[t].pc = "loop"]
    /\ UNCHANGED <<mainVars, big, hdr, besidesCustom>>

\* the steps of Thread() that the scheduler has to take
Thread(t) ==
    \/ ThreadLock(t)
    \/ ThreadWait(t)
    \/ ThreadWake(t)
    \/ ThreadPop(t)
    \/ ThreadDecompress(t)
    \/ ThreadRelock(t)

\* ~CustomDecompression(): WaitForThreadpoolWaitCallbacks(m_tpWait, TRUE) and
\* CloseThreadpoolWait: no callback is running and none will run
DestructorCloseWait ==
    /\ custom.built = "alive"
    /\ custom.callback = "armed"
    /\ custom' = [custom EXCEPT !.built = "lock", !.callback = "closed"]
    /\ UNCHANGED <<mainVars, big, hdr, besidesCustom>>

\* ~CustomDecompression(): lock, m_quit = true, unlock
DestructorQuit ==
    /\ custom.built = "lock"
    /\ ~custom.m_mutex
    /\ custom' = [custom EXCEPT !.m_quit = TRUE, !.built = "notify"]
    /\ UNCHANGED <<mainVars, big, hdr, besidesCustom>>

\* ~CustomDecompression(): m_cv.notify_all()
DestructorNotify ==
    /\ custom.built = "notify"
    /\ custom' = [custom EXCEPT !.m_threads = NotifyAll(@), !.built = "join"]
    /\ UNCHANGED <<mainVars, big, hdr, besidesCustom>>

\* ~CustomDecompression(): thread.join() for each thread in turn, then done
DestructorJoin ==
    /\ custom.built = "join"
    /\ IF custom.joined < Len(custom.m_threads)
       THEN /\ custom.m_threads[custom.joined + 1].pc = "returned"
            /\ custom' = [custom EXCEPT !.joined = @ + 1]
       ELSE custom' = [custom EXCEPT !.built = "destroyed"]
    /\ UNCHANGED <<mainVars, big, hdr, besidesCustom>>

Callback ==
    \/ CallbackStart
    \/ CallbackGetRequests
    \/ CallbackDecompress
    \/ CallbackPush
    \/ CallbackNotify

Destructor == DestructorQuit \/ DestructorNotify \/ DestructorJoin

InitCustom ==
    /\ Init
    /\ in = [size |-> SizeT(0), pattern |-> "zero"]
    /\ level = MinimumCompressionLevel
    /\ capacity = CompressBound(in.size)

NextCustom ==
    \/ \E numThreads \in 0..MaxThreads : CustomDecompression(numThreads)
    \/ RequestAvailable
    \/ Callback
    \/ \E t \in 1..Len(custom.m_threads) : Thread(t)
    \/ \E t \in 1..Len(custom.m_threads) : ThreadSpuriousWake(t)
    \/ DestructorCloseWait
    \/ Destructor

\* every thread, the threadpool callback and the destructor keep running, and
\* a thread that tries to lock m_mutex gets it eventually; nothing makes
\* DirectStorage send another request, m_cv.wait wake without notification, or
\* the owner destroy the object
SpecCustom ==
    /\ InitCustom
    /\ [][NextCustom]_vars
    /\ \A t \in 1..MaxThreads : SF_vars(t <= Len(custom.m_threads) /\ Thread(t))
    /\ SF_vars(Callback)
    /\ SF_vars(Destructor)

InRequests(request) == \E i \in 1..Len(custom.m_requests) : custom.m_requests[i] = request
Reported(request) == custom.built # "no" /\ custom.results[request] = 1

\* C31: every request the callback pushed onto m_requests is later reported
\* through SetRequestResults by a worker (unless the object is being destroyed).
C31_PushedIsReported ==
    \A request \in 1..MaxRequests :
        InRequests(request) ~> (Reported(request) \/ custom.m_quit)

\* C32: once the destructor has set m_quit and called notify_all, every thread
\* returns and is joined: the destructor finishes.
C32_DestructorTerminates ==
    (custom.built = "join") ~> (custom.built = "destroyed")

\* ------------------------------------------------------------------------
\* MiniEngine: custom decompression tasks (Model/DStorageLoader.cpp)
\* ------------------------------------------------------------------------
MaxBlocks == 3         \* blocks of the request

\* constexpr size_t ZLIB_BLOCK_SIZE = 256 * 1024
ZLIB_BLOCK_SIZE == 262144

\* constexpr inline uint64_t GetH3DZlibBlockCount(uint64_t uncompressedSize)
GetH3DZlibBlockCount(uncompressedSize) ==
    (uncompressedSize + ZLIB_BLOCK_SIZE - 1) \div ZLIB_BLOCK_SIZE

\* request.DstSize: the sizes of 1..MaxBlocks blocks, the last block being one
\* byte, one byte short of a block, or a whole block
DstSizes ==
    {(k - 1) * ZLIB_BLOCK_SIZE + r : k \in 1..MaxBlocks, r \in {1, ZLIB_BLOCK_SIZE - 1, ZLIB_BLOCK_SIZE}}

\* OnDecompress: isEndBlock and blockDstLength
BlockDstLength(DstSize, block) ==
    LET isEndBlock == block = GetH3DZlibBlockCount(DstSize) - 1
    IN  IF isEndBlock THEN DstSize % ZLIB_BLOCK_SIZE ELSE ZLIB_BLOCK_SIZE

\* uncompress(...): zlib is not part of the sources; it either fills the
\* block or returns an error
UncompressResults == {"Z_OK", "Z_DATA_ERROR"}

\* a task that reports as soon as it is the first to finish
IsLastTaskFirst(completedBefore, blockCount) == completedBefore = 0

\* OnDecompress: dr->NumBlocksCompleted.fetch_add(1) == (blockCount-1)
IsLastTask(completedBefore, blockCount) == completedBefore = blockCount - 1

\* a task's access to *dr, noted when the object is already deleted
UseDr(m) == [m EXCEPT !.usedAfterDelete = @ \/ m.dr.state # "live"]

QueuedTask == [pc |-> "queued", block |-> 0, dstLength |-> 0, uncompressResult |-> "none"]

\* ScheduleDecompression: new DecompressionRequest{ request, 0, 0, Z_OK }
ScheduleDecompression(DstSize) ==
    /\ mini.dr.state = "none"
    /\ mini' = [mini EXCEPT !.DstSize = DstSize, !.dr.state = "live"]
    /\ UNCHANGED <<mainVars, big, hdr, besidesMini>>

\* ScheduleDecompression: one TrySubmitThreadpoolCallback(OnDecompress, r, nullptr)
SubmitTask ==
    /\ mini.dr.state # "none"
    /\ mini.submitted < GetH3DZlibBlockCount(mini.DstSize)
    /\ mini' = [mini EXCEPT !.submitted = @ + 1, !.tasks = Append(@, QueuedTask)]
    /\ UNCHANGED <<mainVars, big, hdr, besidesMini>>

\* OnDecompress: block = dr->NextBlock.fetch_add(1)
TaskFetchBlock(k) ==
    /\ mini.tasks[k].pc = "queued"
    /\ mini' = [UseDr(mini) EXCEPT !.tasks[k].pc = "uncompress",
                                   !.tasks[k].block = mini.dr.NextBlock,
                                   !.dr.NextBlock = @ + 1]
    /\ UNCHANGED <<mainVars, big, hdr, besidesMini>>

\* OnDecompress: lengths, uncompress, memcpy to DstBuffer + block *
\* ZLIB_BLOCK_SIZE or dr->ErrorCode = uncompressResult
TaskUncompress(k, uncompressResult) ==
    /\ mini.tasks[k].pc = "uncompress"
    /\ mini' = [UseDr(mini) EXCEPT
            !.tasks[k].pc = "completed",
            !.tasks[k].dstLength = BlockDstLength(mini.DstSize, mini.tasks[k].block),
            !.tasks[k].uncompressResult = uncompressResult,
            !.dr.ErrorCode = IF uncompressResult = "Z_OK" THEN @ ELSE uncompressResult]
    /\ UNCHANGED <<mainVars, big, hdr, besidesMini>>

\* OnDecompress: if (dr->NumBlocksCompleted.fetch_add(1) == (blockCount-1))
TaskCompleted(k) ==
    /\ mini.tasks[k].pc = "completed"
    /\ mini' = [UseDr(mini) EXCEPT
            !.dr.NumBlocksCompleted = @ + 1,
            !.tasks[k].pc = IF IsLastTask(mini.dr.NumBlocksCompleted, GetH3DZlibBlockCount(mini.DstSize))
                            THEN "report" ELSE "done"]
    /\ UNCHANGED <<mainVars, big, hdr, besidesMini>>

\* OnDecompress: result.Result, SetRequestResults(1, &result), delete dr
TaskReport(k) ==
    /\ mini.tasks[k].pc = "report"
    /\ mini' = [UseDr(mini) EXCEPT
            !.results = Append(@, IF mini.dr.ErrorCode = "Z_OK" THEN "S_OK" ELSE "E_FAIL"),
            !.dr.state = "deleted",
            !.tasks[k].pc = "done"]
    /\ UNCHANGED <<mainVars, big, hdr, besidesMini>>

InitMini ==
    /\ Init
    /\ in = [size |-> SizeT(0), pattern |-> "zero"]
    /\ level = MinimumCompressionLevel
    /\ capacity = CompressBound(in.size)

NextMini ==
    \/ \E DstSize \in DstSizes : ScheduleDecompression(DstSize)
    \/ SubmitTask
    \/ \E k \in 1..Len(mini.tasks) : TaskFetchBlock(k)
    \/ \E k \in 1..Len(mini.tasks), uncompressResult \in UncompressResults :
            TaskUncompress(k, uncompressResult)
    \/ \E k \in 1..Len(mini.tasks) : TaskCompleted(k)
    \/ \E k \in 1..Len(mini.tasks) : TaskReport(k)

SpecMini == InitMini /\ [][NextMini]_vars

BlockCount == GetH3DZlibBlockCount(mini.DstSize)
TaskIds == 1..Len(mini.tasks)
HasBlock(k) == mini.tasks[k].pc # "queued"
Processed(k) == mini.tasks[k].pc \in {"completed", "report", "done"}
AllTasksDone == Len(mini.tasks) = BlockCount /\ \A k \in TaskIds : mini.tasks[k].pc = "done"
SomeBlockFailed == \E k \in TaskIds : Processed(k) /\ mini.tasks[k].uncompressResult # "Z_OK"

\* C33: the tasks of a request hold distinct block indices below blockCount;
\* SetRequestResults is called at most once, by a task that found all blocks
\* processed, and exactly once when all tasks are done; no task uses the
\* request after its deletion; the result is E_FAIL if a block failed (and
\* S_OK otherwise).
C33_LastTaskReports ==
    mini.dr.state # "none" =>
        /\ \A k \in TaskIds : HasBlock(k) => mini.tasks[k].block < BlockCount
        /\ \A j, k \in TaskIds : HasBlock(j) /\ HasBlock(k) /\ j # k
                => mini.tasks[j].block # mini.tasks[k].block
        /\ Len(mini.results) <= 1
        /\ \A k \in TaskIds : mini.tasks[k].pc = "report" \/ mini.results # <<>>
                => Len(mini.tasks) = BlockCount /\ \A j \in TaskIds : Processed(j)
        /\ mini.dr.state = "deleted" <=> Len(mini.results) = 1
        /\ ~mini.usedAfterDelete
        /\ AllTasksDone => /\ Len(mini.results) = 1
                           /\ mini.results[1] = "E_FAIL" <=> SomeBlockFailed

C33_Witness ==
    /\ AllTasksDone
    /\ BlockCount = MaxBlocks
    /\ mini.results = <<"E_FAIL">>
    /\ mini.tasks[1].block = MaxBlocks - 1
    /\ mini.tasks[MaxBlocks].uncompressResult = "Z_OK"

RECURSIVE SumDstLengths(_)
SumDstLengths(k) == IF k = 0 THEN 0 ELSE mini.tasks[k].dstLength + SumDstLengths(k - 1)

\* C34: every block of a request but the last has destination size
\* ZLIB_BLOCK_SIZE, and the destination sizes of the GetH3DZlibBlockCount(DstSize)
\* blocks sum to DstSize.
C34_BlocksTileDestination ==
    /\ \A k \in TaskIds : Processed(k) /\ mini.tasks[k].block < BlockCount - 1
            => mini.tasks[k].dstLength = ZLIB_BLOCK_SIZE
    /\ (Len(mini.tasks) = BlockCount /\ \A k \in TaskIds : Processed(k))
            => SumDstLengths(BlockCount) = mini.DstSize

\* ------------------------------------------------------------------------
\* BulkLoadDemo: custom decompression on the threadpool (DStorageLoader.cpp)
\* ------------------------------------------------------------------------
MaxLoaderRequests == 3  \* requests DirectStorage hands to the callback

\* DSTORAGE_CUSTOM_DECOMPRESSION_REQUEST requests[64]
LoaderRequestsPerCall == 64

\* one work too many for a batch
WorkPerBatchPlusOne(numRequests) == numRequests + 1

\* OnCustomDecompressionRequestsAvailable: SubmitThreadpoolWork once for each i
\* in 0..numRequests-1
WorkPerBatch(numRequests) == numRequests

\* DirectStorage has one more request that needs custom decompression and sets
\* g_customDecompressionQueueEvent
LoaderRequestAvailable ==
    /\ loader.enqueued < MaxLoaderRequests
    /\ loader' = [loader EXCEPT !.enqueued = @ + 1, !.queue = Append(@, loader.enqueued + 1),
                                !.results = Append(@, 0)]
    /\ UNCHANGED <<mainVars, big, hdr, besidesLoader>>

\* the threadpool runs OnCustomDecompressionRequestsAvailable: the wait was
\* set and the event is signalled
AvailableStart ==
    /\ loader.callback = "armed"
    /\ loader.queue # <<>>
    /\ loader' = [loader EXCEPT !.callback = "get"]
    /\ UNCHANGED <<mainVars, big, hdr, besidesLoader>>

\* OnCustomDecompressionRequestsAvailable: GetRequests1; break and
\* SetThreadpoolWait when there are none
AvailableGetRequests ==
    /\ loader.callback = "get"
    /\ LET numRequests == MinNat(LoaderRequestsPerCall, Len(loader.queue))
       IN  IF numRequests = 0
           THEN loader' = [loader EXCEPT !.callback = "armed"]
           ELSE loader' = [loader EXCEPT
                    !.requests = SubSeq(loader.queue, 1, numRequests),
                    !.queue = SubSeq(loader.queue, numRequests + 1, Len(loader.queue)),
                    !.callback = "push"]
    /\ UNCHANGED <<mainVars, big, hdr, besidesLoader>>

\* OnCustomDecompressionRequestsAvailable: lock, push_back of the batch, unlock
AvailablePush ==
    /\ loader.callback = "push"
    /\ loader' = [loader EXCEPT !.g_decompressionRequests = @ \o loader.requests,
                                !.toSubmit = WorkPerBatch(Len(loader.requests)),
                                !.requests = <<>>, !.callback = "submit"]
    /\ UNCHANGED <<mainVars, big, hdr, besidesLoader>>

\* OnCustomDecompressionRequestsAvailable: one SubmitThreadpoolWork of the
\* loop, or the loop's end
AvailableSubmitWork ==
    /\ loader.callback = "submit"
    /\ IF loader.toSubmit > 0
       THEN loader' = [loader EXCEPT !.toSubmit = @ - 1, !.g_decompressionWork = @ + 1]
       ELSE loader' = [loader EXCEPT !.callback = "get"]
    /\ UNCHANGED <<mainVars, big, hdr, besidesLoader>>

\* DecompressionWork: lock, ASSERT(!g_decompressionRequests.empty()), front,
\* pop_front, unlock
DecompressionWorkPop ==
    /\ loader.g_decompressionWork > 0
    /\ IF loader.g_decompressionRequests = <<>>
       THEN loader' = [loader EXCEPT !.g_decompressionWork = @ - 1, !.assertFailed = TRUE]
       ELSE loader' = [loader EXCEPT !.g_decompressionWork = @ - 1,
                                     !.busy = Append(@, Head(loader.g_decompressionRequests)),
                                     !.g_decompressionRequests = Tail(@)]
    /\ UNCHANGED <<mainVars, big, hdr, besidesLoader>>

\* DecompressionWork of the i-th busy callback: uncompress, SetRequestResults
DecompressionWorkReport(i) ==
    /\ i \in 1..Len(loader.busy)
    /\ loader' = [loader EXCEPT
            !.busy = SubSeq(@, 1, i - 1) \o SubSeq(@, i + 1, Len(@)),
            !.results = SetRequestResults(@, loader.busy[i])]
    /\ UNCHANGED <<mainVars, big, hdr, besidesLoader>>

Available == AvailableStart \/ AvailableGetRequests \/ AvailablePush \/ AvailableSubmitWork

DecompressionWork == DecompressionWorkPop \/ \E i \in 1..MaxLoaderRequests + 1 : DecompressionWorkReport(i)

InitLoader ==
    /\ Init
    /\ in = [size |-> SizeT(0), pattern |-> "zero"]
    /\ level = MinimumCompressionLevel
    /\ capacity = CompressBound(in.size)

NextLoader ==
    \/ LoaderRequestAvailable
    \/ Available
    \/ DecompressionWork

\* the threadpool runs every callback it was given
SpecLoader == InitLoader /\ [][NextLoader]_vars /\ WF_vars(Available) /\ WF_vars(DecompressionWork)

InDeque(request) ==
    \E i \in 1..Len(loader.g_decompressionRequests) : loader.g_decompressionRequests[i] = request

LoaderReported(request) == request <= Len(loader.results) /\ loader.results[request] = 1

\* C35: each DecompressionWork callback finds the deque non-empty (there are
\* never more works submitted and not yet run than requests in the deque), no
\* request is reported twice, and every request pushed onto the deque is later
\* popped and reported.
C35_OneWorkPerRequest ==
    /\ [](/\ ~loader.assertFailed
          /\ loader.g_decompressionWork <= Len(loader.g_decompressionRequests)
          /\ \A request \in 1..Len(loader.results) : loader.results[request] <= 1)
    /\ \A request \in 1..MaxLoaderRequests :
          InDeque(request) ~> (~InDeque(request) /\ LoaderReported(request))

C35_Witness ==
    /\ loader.enqueued = MaxLoaderRequests
    /\ loader.results[1] = 0
    /\ loader.results[2] = 1
    /\ loader.busy = <<1>>
    /\ loader.g_decompressionWork = 1
    /\ Len(loader.g_decompressionRequests) = 1

\* ------------------------------------------------------------------------
\* BulkLoadDemo: MultiHeap (MultiHeap.h), sizes and offsets being uint64_t
\* ------------------------------------------------------------------------
MaxAllocations == 3    \* allocations between two Clear() calls
MaxClears == 1         \* Clear() calls

\* D3D12_DEFAULT_RESOURCE_PLACEMENT_ALIGNMENT (d3d12.h): 64 KB
D3D12_DEFAULT_RESOURCE_PLACEMENT_ALIGNMENT == 65536

\* UINT64_MAX, the SizeInBytes of a D3D12_RESOURCE_ALLOCATION_INFO1 that
\* GetResourceAllocationInfo1 could not compute
UINT64_MAX == [i \in 1..SizeofU64 |-> 255]

\* (4u * 1024u * 1024u * 1024u) - (1024u * 1024u), computed in unsigned int and
\* then converted to uint64_t
PerHeapAllocationSize ==
    Ext(Sub(Mul(Mul(Mul(U32(4), 1024), 1024), 1024), Mul(U32(1024), 1024)), SizeofU64)

\* Math::AlignUp(value, alignment) for an alignment of 256^n:
\* (value + alignment - 1) & ~(alignment - 1)
AlignUp(value, alignment) ==
    LET n == CHOOSE k \in 0..SizeofU64 : Byte ^ k = alignment
        sum == Add(value, SizeT(alignment - 1))
    IN  [i \in 1..SizeofU64 |-> IF i <= n THEN 0 ELSE sum[i]]

RECURSIVE DivU64(_, _)
\* a / b of two uint64_t, b # 0
DivU64(a, b) == IF Less(a, b) THEN 0 ELSE 1 + DivU64(Sub(a, b), b)

RECURSIVE CreateHeaps(_, _, _)
\* MultiHeap(flags, totalSize): the loop that creates totalHeaps heaps
CreateHeaps(totalSize, bytesAllocated, totalHeaps) ==
    IF totalHeaps = 0 THEN <<>>
    ELSE LET SizeInBytes == Min(PerHeapAllocationSize, Sub(totalSize, bytesAllocated))
         IN  <<[HeapSizeInBytes |-> SizeInBytes, NextLocalOffset |-> SizeT(0)]>>
             \o CreateHeaps(totalSize, Add(bytesAllocated, SizeInBytes), totalHeaps - 1)

\* static HeapEntry* TryGetHeapEntryForAllocation(heaps, sizeInBytes): the
\* index of the entry, 0 for nullptr
TryGetHeapEntryForAllocation(heaps, sizeInBytes) ==
    LET fits == {h \in 1..Len(heaps) :
                    Less(AlignUp(Add(heaps[h].NextLocalOffset, sizeInBytes),
                                 D3D12_DEFAULT_RESOURCE_PLACEMENT_ALIGNMENT),
                         heaps[h].HeapSizeInBytes)}
    IN  IF fits = {} THEN 0 ELSE CHOOSE h \in fits : \A g \in fits : h <= g

\* static std::optional<MultiHeapAllocation> TryAllocate(heaps, sizeInBytes):
\* the optional, and heaps as the call leaves them
TryAllocate(heaps, sizeInBytes) ==
    LET heapEntry == TryGetHeapEntryForAllocation(heaps, sizeInBytes)
    IN  IF heapEntry # 0
        THEN [allocation |-> <<[Heap |-> heapEntry, Offset |-> heaps[heapEntry].NextLocalOffset,
                                SizeInBytes |-> sizeInBytes]>>,
              heaps |-> [heaps EXCEPT ![heapEntry].NextLocalOffset =
                            AlignUp(Add(@, sizeInBytes), D3D12_DEFAULT_RESOURCE_PLACEMENT_ALIGNMENT)]]
        ELSE [allocation |-> <<>>, heaps |-> heaps]

RECURSIVE CanAllocate(_, _)
\* bool CanAllocate(allocations), on its copy of m_heaps; CanAllocate(uint64_t)
\* is the case of one allocation
CanAllocate(heaps, allocations) ==
    IF allocations = <<>> THEN TRUE
    ELSE LET tried == TryAllocate(heaps, Head(allocations))
         IN  IF tried.allocation = <<>> THEN FALSE
             ELSE CanAllocate(tried.heaps, Tail(allocations))

RECURSIVE Allocate(_, _)
\* Allocate(allocations) on heap.m_heaps; Allocate(uint64_t) is the case of one
\* allocation; a failed assert ends it
Allocate(heap, allocations) ==
    IF allocations = <<>> \/ heap.assertFailed THEN heap
    ELSE LET alloc == TryAllocate(heap.m_heaps, Head(allocations))
         IN  IF alloc.allocation = <<>> THEN [heap EXCEPT !.assertFailed = TRUE]
             ELSE Allocate([heap EXCEPT !.m_heaps = alloc.heaps,
                                        !.allocations = @ \o alloc.allocation],
                           Tail(allocations))

\* total sizes: one heap, or one heap of PerHeapAllocationSize and a second
HeapTotalSizes ==
    {SizeT(4 * D3D12_DEFAULT_RESOURCE_PLACEMENT_ALIGNMENT),
     Add(PerHeapAllocationSize, SizeT(4 * D3D12_DEFAULT_RESOURCE_PLACEMENT_ALIGNMENT))}

\* sizes asked for
HeapRequestSizes ==
    {SizeT(0), SizeT(D3D12_DEFAULT_RESOURCE_PLACEMENT_ALIGNMENT),
     SizeT(2 * D3D12_DEFAULT_RESOURCE_PLACEMENT_ALIGNMENT + 1),
     Sub(PerHeapAllocationSize, SizeT(2 * D3D12_DEFAULT_RESOURCE_PLACEMENT_ALIGNMENT)),
     UINT64_MAX}

\* arguments of CanAllocate and Allocate: one or two allocations
HeapRequests ==
    {<<a>> : a \in HeapRequestSizes} \cup {<<a, b>> : a, b \in HeapRequestSizes}

\* MultiHeap(D3D12_HEAP_FLAGS flags, uint64_t totalSize)
MultiHeapCreate(totalSize) ==
    /\ ~multiHeap.built
    /\ multiHeap' = [multiHeap EXCEPT
            !.built = TRUE,
            !.m_heaps = CreateHeaps(totalSize, SizeT(0), DivU64(totalSize, PerHeapAllocationSize) + 1)]
    /\ UNCHANGED <<mainVars, big, hdr, besidesHeap>>

\* void Clear()
Clear ==
    /\ multiHeap.built
    /\ ~multiHeap.assertFailed
    /\ multiHeap.clears < MaxClears
    /\ multiHeap' = [multiHeap EXCEPT
            !.m_heaps = [h \in 1..Len(@) |-> [@[h] EXCEPT !.NextLocalOffset = SizeT(0)]],
            !.allocations = <<>>,
            !.clears = @ + 1]
    /\ UNCHANGED <<mainVars, big, hdr, besidesHeap>>

\* a call of CanAllocate, as TryStartLoad makes it
CanAllocateCall(allocations) ==
    /\ multiHeap.built
    /\ ~multiHeap.assertFailed
    /\ multiHeap' = [multiHeap EXCEPT
            !.canAllocate = [allocations |-> allocations,
                             result |-> CanAllocate(multiHeap.m_heaps, allocations),
                             current |-> TRUE]]
    /\ UNCHANGED <<mainVars, big, hdr, besidesHeap>>

\* a call of Allocate with the argument CanAllocate just returned true for
AllocateCall ==
    /\ multiHeap.built
    /\ ~multiHeap.assertFailed
    /\ multiHeap.canAllocate.current
    /\ multiHeap.canAllocate.result
    /\ Len(multiHeap.allocations) + Len(multiHeap.canAllocate.allocations) <= MaxAllocations
    /\ multiHeap' = [Allocate(multiHeap, multiHeap.canAllocate.allocations) EXCEPT
            !.canAllocate.current = FALSE]
    /\ UNCHANGED <<mainVars, big, hdr, besidesHeap>>

InitHeap ==
    /\ Init
    /\ in = [size |-> SizeT(0), pattern |-> "zero"]
    /\ level = MinimumCompressionLevel
    /\ capacity = CompressBound(in.size)

NextHeap ==
    \/ \E totalSize \in HeapTotalSizes : MultiHeapCreate(totalSize)
    \/ Clear
    \/ \E allocations \in HeapRequests : CanAllocateCall(allocations)
    \/ AllocateCall

SpecHeap == InitHeap /\ [][NextHeap]_vars

\* [Offset, Offset + SizeInBytes) lies in a heap of the given size, the sum
\* not being taken modulo 2^64
InHeap(a, HeapSizeInBytes) ==
    /\ Leq(a.Offset, HeapSizeInBytes)
    /\ Leq(a.SizeInBytes, Sub(HeapSizeInBytes, a.Offset))

\* the range of a ends at or before the start of b
EndsBefore(a, b) ==
    /\ Leq(a.Offset, b.Offset)
    /\ Leq(a.SizeInBytes, Sub(b.Offset, a.Offset))

Disjoint(a, b) ==
    \/ a.Heap # b.Heap
    \/ IsZero(a.SizeInBytes)
    \/ IsZero(b.SizeInBytes)
    \/ EndsBefore(a, b)
    \/ EndsBefore(b, a)

\* C37: Allocate called with what CanAllocate just accepted never fails its
\* assert, and the allocations handed out since the last Clear() are pairwise
\* disjoint ranges inside their heaps.
C37_AllocationsInHeaps ==
    /\ ~multiHeap.assertFailed
    /\ \A i \in 1..Len(multiHeap.allocations) :
          InHeap(multiHeap.allocations[i],
                 multiHeap.m_heaps[multiHeap.allocations[i].Heap].HeapSizeInBytes)
    /\ \A i, j \in 1..Len(multiHeap.allocations) :
          i < j => Disjoint(multiHeap.allocations[i], multiHeap.allocations[j])

\* ------------------------------------------------------------------------
\* BulkLoadDemo: MarcFileManager (MarcFileManager.cpp) as BulkLoadDemo drives
\* it (BulkLoadDemo.cpp).  The manager and the heaps are used by the main
\* thread only; each MarcFile is shared with the threadpool, under its
\* m_mutex.  The queue reaching a file's EnqueueSetEvent and the threadpool
\* running the callback are one step here: nothing else reads the event.
\* ------------------------------------------------------------------------
MaxFiles == 2          \* files Startup adds
MaxSets == 2           \* sets BulkLoadDemo loads

\* DXGI_QUERY_VIDEO_MEMORY_INFO::Budget as the adapter reports it
Budget == SizeT(16 * D3D12_DEFAULT_RESOURCE_PLACEMENT_ALIGNMENT)

\* what a file's header and CPU metadata say: the allocation info of each
\* texture, the UncompressedSize of each texture's RemainingMips (no single
\* mips), and m_header.UnstructuredGpuData.UncompressedSize.  A model has one
\* texture or none.
FileMetadatas ==
    {[m_textureAllocationInfos |-> [t \in 1..textures |->
                                        SizeT(D3D12_DEFAULT_RESOURCE_PLACEMENT_ALIGNMENT)],
      RemainingMips |-> [t \in 1..textures |-> SizeT(D3D12_DEFAULT_RESOURCE_PLACEMENT_ALIGNMENT)],
      UnstructuredGpuData |-> SizeT(buffers * D3D12_DEFAULT_RESOURCE_PLACEMENT_ALIGNMENT)] :
        textures \in 0..1, buffers \in 1..2}

NoFileMetadata ==
    [m_textureAllocationInfos |-> <<>>, RemainingMips |-> <<>>, UnstructuredGpuData |-> SizeT(0)]

\* the orders std::shuffle can leave n file ids in
Shuffles(n) == {ids \in [1..n -> 1..n] : \A i, j \in 1..n : ids[i] = ids[j] => i = j}

\* m_fileIds as LoadNextSet can pass it
FileIds == UNION {Shuffles(n) : n \in 0..MaxFiles}

\* MarcFile::DataSize{}, of the members SetNextSet reads
NoDataSize == [TexturesByteCount |-> SizeT(0), BuffersByteCount |-> SizeT(0)]

\* MarcFile::MarcFile(path), hr being what OpenFile returned
NewMarcFile(hr) ==
    [metadata |-> NoFileMetadata,
     file |-> CheckHR([MarcFileReady EXCEPT !.m_state = "FileOpen"], hr)]

\* void MarcFile::StartMetadataLoad()
AfterStartMetadataLoad(file) ==
    IF ~StateIsOneOf(file, {"FileOpen"}) THEN Terminated(file)
    ELSE [file EXCEPT !.m_state = "LoadingHeader"]

\* void MarcFile::OnHeaderLoaded(): versionOk says m_header.Version is
\* CURRENT_MARC_FILE_VERSION, hr is the Metadata entry of the status array
AfterOnHeaderLoaded(file, versionOk, hr) ==
    IF ~StateIsOneOf(file, {"LoadingHeader"}) THEN Terminated(file)
    ELSE IF ~versionOk \/ FAILED(hr) THEN [file EXCEPT !.m_status = hr, !.m_state = "Error"]
    ELSE [file EXCEPT !.m_status = hr, !.m_state = "LoadingCpuMetadata"]

\* void MarcFile::OnCpuMetadataLoaded(), hr being what QueryInterface returned
AfterOnCpuMetadataLoaded(file, hr) ==
    IF ~StateIsOneOf(file, {"LoadingCpuMetadata"}) THEN Terminated(file)
    ELSE Bind(CheckHR(file, hr), LAMBDA checked :
            IF ~IsOk(checked) THEN checked ELSE [checked EXCEPT !.m_state = "MetadataReady"])

RECURSIVE TexturesByteCount(_)
\* the loop of GetRequiredDataSize over the textures
TexturesByteCount(RemainingMips) ==
    IF RemainingMips = <<>> THEN SizeT(0)
    ELSE Add(Head(RemainingMips), TexturesByteCount(Tail(RemainingMips)))

\* MarcFile::DataSize MarcFile::GetRequiredDataSize() const, of a file whose
\* metadata is ready or that is in error (the callers' case)
GetRequiredDataSize(f) ==
    IF ~IsOk(f.file) THEN NoDataSize
    ELSE [TexturesByteCount |-> TexturesByteCount(f.metadata.RemainingMips),
          BuffersByteCount |-> f.metadata.UnstructuredGpuData]

\* MultiHeap(flags, totalSize), in the shape of NoMultiHeap
NewMultiHeap(totalSize) ==
    [NoMultiHeap EXCEPT
        !.built = TRUE,
        !.m_heaps = CreateHeaps(totalSize, SizeT(0), DivU64(totalSize, PerHeapAllocationSize) + 1)]

\* void MultiHeap::Clear()
Cleared(heap) ==
    [heap EXCEPT !.m_heaps = [h \in 1..Len(@) |-> [@[h] EXCEPT !.NextLocalOffset = SizeT(0)]],
                 !.allocations = <<>>]

\* MarcFileManager::MarcFileManager()
MarcFileManagerCreate ==
    /\ ~manager.built
    /\ LET maxAllocationSize == Div(Mul(Budget, 3), 4)
           totalTexturesMemorySize == Div(Mul(maxAllocationSize, 3), 4)
           totalBuffersMemorySize == Div(maxAllocationSize, 4)
       IN  manager' = [manager EXCEPT
                !.built = TRUE,
                !.m_texturesHeap = NewMultiHeap(totalTexturesMemorySize),
                !.m_buffersHeap = NewMultiHeap(totalBuffersMemorySize),
                !.m_state = "LoadingMetadata"]
    /\ UNCHANGED <<mainVars, big, hdr, besidesManager>>

Threw(m) == m.threw # "none"

\* FileId MarcFileManager::Add(filename), called by Startup; hr is what
\* OpenFile returned
MarcFileManagerAdd(hr) ==
    /\ manager.built
    /\ ~manager.running
    /\ ~Threw(manager)
    /\ Len(manager.m_files) < MaxFiles
    /\ LET f == NewMarcFile(hr)
           loading == AfterStartMetadataLoad(f.file)
       IN  manager' = IF loading.m_state = "Terminated"
                      THEN [manager EXCEPT !.threw = "StartMetadataLoad"]
                      ELSE [manager EXCEPT !.m_files = Append(@, [f EXCEPT !.file = loading])]
    /\ UNCHANGED <<mainVars, big, hdr, besidesManager>>

\* the header of file id was read: the threadpool runs OnHeaderLoaded
OnHeaderLoaded(id, versionOk, hr) ==
    /\ id \in 1..Len(manager.m_files)
    /\ manager.m_files[id].file.m_state = "LoadingHeader"
    /\ manager' = [manager EXCEPT !.m_files[id].file = AfterOnHeaderLoaded(@, versionOk, hr)]
    /\ UNCHANGED <<mainVars, big, hdr, besidesManager>>

\* the CPU metadata of file id was read: the threadpool runs
\* OnCpuMetadataLoaded
OnCpuMetadataLoaded(id, metadata, hr) ==
    /\ id \in 1..Len(manager.m_files)
    /\ manager.m_files[id].file.m_state = "LoadingCpuMetadata"
    /\ manager' = [manager EXCEPT
            !.m_files[id].file = AfterOnCpuMetadataLoaded(@, hr),
            !.m_files[id].metadata = metadata]
    /\ UNCHANGED <<mainVars, big, hdr, besidesManager>>

\* the CPU data of file id was read: the status entry is written, the event
\* set, and the threadpool runs OnCpuDataLoaded
FileCpuDataLoaded(id, hr, weights) ==
    /\ id \in 1..Len(manager.m_files)
    /\ manager.m_files[id].file.m_cpuDataLoaded = "waiting"
    /\ manager' = [manager EXCEPT !.m_files[id].file =
            AfterOnCpuDataLoaded([@ EXCEPT !.m_statusArray.CpuData = hr, !.m_cpuDataLoaded = "set"],
                                 [NoMarcLog EXCEPT !.loads = manager.sets], weights).file]
    /\ UNCHANGED <<mainVars, big, hdr, besidesManager>>

\* the GPU data of file id was read: the threadpool runs OnGpuDataLoaded
FileGpuDataLoaded(id, hr) ==
    /\ id \in 1..Len(manager.m_files)
    /\ manager.m_files[id].file.m_gpuDataLoaded = "waiting"
    /\ manager' = [manager EXCEPT !.m_files[id].file =
            AfterOnGpuDataLoaded([@ EXCEPT !.m_statusArray.GpuData = hr, !.m_gpuDataLoaded = "set"],
                                 [NoMarcLog EXCEPT !.loads = manager.sets]).file]
    /\ UNCHANGED <<mainVars, big, hdr, besidesManager>>

\* MarcFile::DataSize MarcFileManager::TryStartLoad(File& file): the manager
\* as the call leaves it, and the size returned
TryStartLoad(m, id) ==
    LET f == m.m_files[id]
        allocationInfos == f.metadata.m_textureAllocationInfos
        requiredDataSize == GetRequiredDataSize(f)
    IN  IF GetState(f.file) # "ReadyToLoadContent"
        THEN [manager |-> m, size |-> NoDataSize]
        ELSE IF \/ ~CanAllocate(m.m_texturesHeap.m_heaps, allocationInfos)
                \/ ~CanAllocate(m.m_buffersHeap.m_heaps, <<requiredDataSize.BuffersByteCount>>)
        THEN [manager |-> m, size |-> NoDataSize]
        ELSE [manager |->
                [m EXCEPT !.m_texturesHeap = Allocate(@, allocationInfos),
                          !.m_buffersHeap = Allocate(@, <<requiredDataSize.BuffersByteCount>>),
                          !.m_files[id].file = AfterStartContentLoad(@),
                          !.started = @ + 1],
              size |-> requiredDataSize]

\* (size.TexturesByteCount + m_currentSetSize.BuffersByteCount) > 0
CountsModel(size, currentSetSize) ==
    ~IsZero(Add(size.TexturesByteCount, currentSetSize.BuffersByteCount))

RECURSIVE LoadFiles(_, _)
\* the loop of SetNextSet over ids
LoadFiles(m, ids) ==
    IF ids = <<>> THEN m
    ELSE LET tried == TryStartLoad(m, Head(ids))
             size == tried.size
             counted == IF CountsModel(size, m.m_currentSetSize) THEN 1 ELSE 0
         IN  LoadFiles([tried.manager EXCEPT
                            !.m_numLoadedModels = @ + counted,
                            !.m_currentSetSize.TexturesByteCount = Add(@, size.TexturesByteCount),
                            !.m_currentSetSize.BuffersByteCount = Add(@, size.BuffersByteCount)],
                       Tail(ids))

\* void MarcFileManager::SetNextSet(std::vector<FileId> const& ids)
SetNextSet(m, ids) ==
    [LoadFiles([m EXCEPT !.m_buffersHeap = Cleared(@),
                         !.m_texturesHeap = Cleared(@),
                         !.m_currentSetSize = NoDataSize,
                         !.m_numLoadedModels = 0,
                         !.started = 0,
                         !.sets = @ + 1],
               ids)
     EXCEPT !.m_state = "Loading"]

RECURSIVE UnloadFiles(_, _)
\* the loop of UnloadSet from file id on: an exception of UnloadContent ends it
UnloadFiles(m, id) ==
    IF id > Len(m.m_files) THEN m
    ELSE LET unloaded == AfterUnloadContent(m.m_files[id].file)
         IN  IF unloaded.m_state = "Terminated" THEN [m EXCEPT !.threw = "UnloadContent"]
             ELSE UnloadFiles([m EXCEPT !.m_files[id].file = unloaded], id + 1)

\* void MarcFileManager::UnloadSet()
UnloadSet(m) ==
    Bind(UnloadFiles(m, 1), LAMBDA unloaded :
        IF Threw(unloaded) THEN unloaded ELSE [unloaded EXCEPT !.m_state = "ReadyToLoad"])

\* allLoaded that Update finds true whatever the files do
AllLoadedAlways(files) == TRUE

\* allMetadataReady of MarcFileManager::Update
AllMetadataReady(files) ==
    \A id \in 1..Len(files) : GetState(files[id].file) # "Initializing"

\* allLoaded of MarcFileManager::Update
AllLoaded(files) ==
    \A id \in 1..Len(files) : GetState(files[id].file) \notin {"Initializing", "ContentLoading"}

\* void MarcFileManager::Update().  A file leaves Initializing and
\* ContentLoading but does not come back while Update runs, so the loop over
\* the files is one look at them.
MarcFileManagerUpdate(m) ==
    CASE m.m_state = "LoadingMetadata" /\ AllMetadataReady(m.m_files) ->
            [m EXCEPT !.m_state = "ReadyToLoad"]
      [] m.m_state = "Loading" /\ AllLoaded(m.m_files) -> [m EXCEPT !.m_state = "Loaded"]
      [] OTHER -> m

IsReadyToLoad(m) == m.m_state = "ReadyToLoad"
SetIsLoaded(m) == m.m_state = "Loaded"

\* the switch of BulkLoadDemo::Update: ids is m_fileIds as LoadNextSet
\* shuffled it, elapsed says GetTimeSinceLoad() > 10s, fenceComplete what
\* IsFenceComplete returns
BulkLoadDemoSwitch(m, ids, elapsed, fenceComplete) ==
    CASE m.app = "Idle" /\ IsReadyToLoad(m) -> [SetNextSet(m, ids) EXCEPT !.app = "LoadingASet"]
      [] m.app = "LoadingASet" /\ SetIsLoaded(m) -> [m EXCEPT !.app = "ShowingASet"]
      [] m.app = "ShowingASet" /\ elapsed -> [m EXCEPT !.app = "Unloading"]
      [] m.app = "Unloading" /\ fenceComplete ->
            Bind(UnloadSet(m), LAMBDA unloaded :
                IF Threw(unloaded) THEN unloaded ELSE [unloaded EXCEPT !.app = "Idle"])
      [] OTHER -> m

\* void BulkLoadDemo::Update(float deltaT), once Startup has returned
Update(ids, elapsed, fenceComplete) ==
    /\ manager.built
    /\ ~Threw(manager)
    /\ ids \in Shuffles(Len(manager.m_files))
    /\ LET updated == MarcFileManagerUpdate(manager)
       IN  /\ ~(updated.app = "Idle" /\ IsReadyToLoad(updated) /\ updated.sets >= MaxSets)
           /\ manager' = [BulkLoadDemoSwitch(updated, ids, elapsed, fenceComplete)
                          EXCEPT !.running = TRUE]
    /\ UNCHANGED <<mainVars, big, hdr, besidesManager>>

InitManager ==
    /\ Init
    /\ in = [size |-> SizeT(0), pattern |-> "zero"]
    /\ level = MinimumCompressionLevel
    /\ capacity = CompressBound(in.size)

NextManager ==
    \/ MarcFileManagerCreate
    \/ \E hr \in HResults : MarcFileManagerAdd(hr)
    \/ \E id \in 1..MaxFiles, versionOk \in BOOLEAN, hr \in HResults :
            OnHeaderLoaded(id, versionOk, hr)
    \/ \E id \in 1..MaxFiles, metadata \in FileMetadatas, hr \in HResults :
            OnCpuMetadataLoaded(id, metadata, hr)
    \/ \E id \in 1..MaxFiles, hr \in HResults, weights \in BOOLEAN :
            FileCpuDataLoaded(id, hr, weights)
    \/ \E id \in 1..MaxFiles, hr \in HResults : FileGpuDataLoaded(id, hr)
    \/ \E ids \in FileIds, elapsed, fenceComplete \in BOOLEAN :
            Update(ids, elapsed, fenceComplete)

SpecManager == InitManager /\ [][NextManager]_vars

\* C36: once SetNextSet has run, NumLoadedModels is the number of files whose
\* content load TryStartLoad started.
C36_CountsStartedLoads ==
    manager.m_state \in {"Loading", "Loaded"} => manager.m_numLoadedModels = manager.started

FileStates(m) == {m.m_files[id].file.m_state : id \in 1..Len(m.m_files)}

\* C38: while the manager is Loaded every file is in MetadataReady,
\* ContentLoaded or Error; BulkLoadDemo is in Unloading only while the manager
\* is Loaded; no UnloadContent (and no callback) throws; and once UnloadSet
\* has run, the manager is ReadyToLoad and the files are in MetadataReady or
\* Error.
C38_UnloadSetNeverThrows ==
    /\ manager.m_state = "Loaded"
          => FileStates(manager) \subseteq {"MetadataReady", "ContentLoaded", "Error"}
    /\ manager.app \in {"ShowingASet", "Unloading"} => manager.m_state = "Loaded"
    /\ manager.threw # "UnloadContent"
    /\ "Terminated" \notin FileStates(manager)
    /\ manager.app = "Idle" /\ manager.sets >= 1
          => /\ manager.m_state = "ReadyToLoad"
             /\ FileStates(manager) \subseteq {"MetadataReady", "Error"}

\* UnloadSet has run on a set of a loaded file and a file whose load failed
C38_Witness ==
    /\ manager.app = "Idle"
    /\ manager.sets = MaxSets
    /\ manager.m_state = "ReadyToLoad"
    /\ Len(manager.m_files) = MaxFiles
    /\ manager.m_files[1].file.m_state = "MetadataReady"
    /\ manager.m_files[1].file.m_model = MaxSets
    /\ manager.m_files[2].file.m_state = "Error"
    /\ manager.m_files[2].file.m_status = "E_NOTIMPL"
====
